---- MODULE Spec2Model ----
(***************************************************************************)
(* A model of oxbed, a local document retrieval engine: the vector index   *)
(* and its cosine search (src/src/index.rs), the search-hit assembly       *)
(* (src/src/search.rs), the chunker (src/src/chunk.rs), the normalizer     *)
(* (src/src/normalization.rs), the embedders (src/src/embedder.rs), the    *)
(* deduplication, reranking and context assembly (src/src/stage3.rs), the  *)
(* query evaluation (src/src/evaluation.rs) and the ingest pipeline over   *)
(* the persisted snapshot (src/src/pipeline.rs, src/src/state.rs).         *)
(*                                                                         *)
(* Texts are sequences of one-character strings.  f32 scores are kept as   *)
(* exact values: a cosine similarity dot / sqrt(norm_a * norm_b) is the    *)
(* record [num |-> dot, den2 |-> norm_a * norm_b], and two scores are      *)
(* compared by cross-multiplying their signed squares.                     *)
(***************************************************************************)
EXTENDS Integers, Sequences, FiniteSets, TLC

VARIABLES
  entries,   \* VectorIndex.entries: the sequence of IndexEntry
  lookup,    \* the last VectorIndex.search call: its arguments and result
  ck,        \* one Chunker and its chunk() call: configuration, loop state
  ctx,       \* the last build_context call: its arguments and outcome
  disk,      \* the persisted State (the snapshot file)
  found,     \* the last search_hits call: its arguments and outcome
  procs,     \* the running commands: position in run(), State and index held
  uuids,     \* the number of Uuid::new_v4() values drawn so far
  norm,      \* a text and the normalize passes made over it
  rr,        \* one run_stage3 call: hits, deduplicated hits, last reranking
  emb,       \* a text and what each embedder variant returned for it
  ev,        \* the last evaluate_query call: its arguments and its report
  mn,        \* one run of main(): the configuration file, the Config used
  last,      \* the last command run to its end, one command at a time
  pr         \* the last format_prompt call: its arguments and the prompt

vars ==
  <<entries, lookup, ck, ctx, disk, found, procs, uuids, norm, rr, emb, ev,
    mn, last, pr>>

OutsideIndex ==
  <<ck, ctx, disk, found, procs, uuids, norm, rr, emb, ev, mn, last, pr>>

OutsideChunk ==
  <<entries, lookup, ctx, disk, found, procs, uuids, norm, rr, emb, ev, mn,
    last, pr>>

OutsideContext ==
  <<entries, lookup, ck, disk, found, procs, uuids, norm, rr, emb, ev, mn,
    last, pr>>

OutsideHits ==
  <<entries, lookup, ck, ctx, procs, uuids, norm, rr, emb, ev, mn, last, pr>>

OutsideNormalize ==
  <<entries, lookup, ck, ctx, disk, found, procs, uuids, rr, emb, ev, mn,
    last, pr>>

OutsideStage3 ==
  <<entries, lookup, ck, ctx, disk, found, procs, uuids, norm, emb, ev, mn,
    last, pr>>

OutsideEmbed ==
  <<entries, lookup, ck, ctx, disk, found, procs, uuids, norm, rr, ev, mn,
    last, pr>>

OutsideEvaluate ==
  <<entries, lookup, ck, ctx, disk, found, procs, uuids, norm, rr, emb, mn,
    last, pr>>

OutsideMain ==
  <<entries, lookup, ck, ctx, disk, found, procs, uuids, norm, rr, emb, ev,
    last, pr>>

OutsideCommands ==
  <<entries, lookup, ck, ctx, found, procs, norm, rr, emb, ev, mn, pr>>

OutsidePrompt ==
  <<entries, lookup, ck, ctx, disk, found, procs, uuids, norm, rr, emb, ev,
    mn, last>>

OutsidePipeline ==
  <<entries, lookup, ck, ctx, found, norm, rr, emb, ev, mn, last, pr>>

Min(a, b) == IF a <= b THEN a ELSE b

Max(a, b) == IF a >= b THEN a ELSE b

(***************************************************************************)
(* Bounds of the model.                                                    *)
(***************************************************************************)
MaxEntries == 2

MaxTopK == 2

MaxLen == 5

MaxTokens == 2

MaxOverlap == 2

MaxHits == 2

MaxBudget == 8

MaxUuid == 5

MaxText == 6

MaxMinFreq == 2

(***************************************************************************)
(* f32 values that the program computes by division are kept as exact      *)
(* fractions [n, d] in lowest terms, d > 0.                                *)
(***************************************************************************)
Abs(x) == IF x >= 0 THEN x ELSE -x

RECURSIVE Gcd(_, _)
Gcd(a, b) == IF b = 0 THEN a ELSE Gcd(b, a % b)

Rat(n, d) ==
  LET g == Gcd(Abs(n), d)
  IN [n |-> n \div g, d |-> d \div g]

RZero == Rat(0, 1)

ROne == Rat(1, 1)

RAdd(x, y) == Rat(x.n * y.d + y.n * x.d, x.d * y.d)

RMul(x, y) == Rat(x.n * y.n, x.d * y.d)

RNeg(x) == [n |-> -x.n, d |-> x.d]

RLess(x, y) == x.n * y.d < y.n * x.d

(***************************************************************************)
(* SparseVector = HashMap<String, f32>: a set of <<token, weight>> pairs   *)
(* with one pair per token; a token is a word, a sequence of characters.   *)
(* A key may carry weight 0, and a weight table of the custom embedder may *)
(* carry a negative weight.                                                *)
(***************************************************************************)
Tokens == {<<"a">>, <<"b">>}

Weights == {Rat(-1, 1), RZero, ROne}

Keys(v) == {p[1] : p \in v}

SparseVector ==
  UNION {{{<<t, f[t]>> : t \in K} : f \in [K -> Weights]} : K \in SUBSET Tokens}

EmptyVector == {}

\* HashMap::is_empty
is_empty(v) == v = {}

\* the sum of the second components of a set of <<token, value>> pairs
RECURSIVE RSum(_)
RSum(S) ==
  IF S = {} THEN RZero
  ELSE LET p == CHOOSE x \in S : TRUE
       IN RAdd(p[2], RSum(S \ {p}))

\* for value in a.values() { norm_a += value * value }
NormSq(v) == RSum({<<p[1], RMul(p[2], p[2])>> : p \in v})

\* for (token, a_val) in a { if let Some(b_val) = b.get(token) { dot += .. } }
Dot(a, b) ==
  RSum({<<x[1][1], RMul(x[1][2], x[2][2])>> :
          x \in {y \in a \X b : y[1][1] = y[2][1]}})

ZeroScore == [num |-> RZero, den2 |-> ROne]

\* dot / (norm_a.sqrt() * norm_b.sqrt()), and 0.0 when either norm is 0.0
cosine_similarity(a, b) ==
  IF NormSq(a) = RZero \/ NormSq(b) = RZero
  THEN ZeroScore
  ELSE [num |-> Dot(a, b), den2 |-> RMul(NormSq(a), NormSq(b))]

SignedSq(x) == IF x.n >= 0 THEN RMul(x, x) ELSE RNeg(RMul(x, x))

\* a > b on the values num / sqrt(den2)
ScoreGT(a, b) ==
  RLess(RMul(SignedSq(b.num), a.den2), RMul(SignedSq(a.num), b.den2))

ScoreEQ(a, b) ==
  RMul(SignedSq(b.num), a.den2) = RMul(SignedSq(a.num), b.den2)

ScoreGE(a, b) == ScoreGT(a, b) \/ ScoreEQ(a, b)

KeepsNonNegative(score) == score.num.n >= 0

\* .filter(|(_, score)| *score > 0.0)
IsCandidate(score) == score.num.n > 0

\* .iter().enumerate().map(..).filter(..).collect(): entry indices are 0-based
RECURSIVE Scored(_, _, _)
Scored(es, query, i) ==
  IF i > Len(es) THEN <<>>
  ELSE LET s == cosine_similarity(query, es[i].vector)
       IN (IF IsCandidate(s) THEN <<[idx |-> i - 1, score |-> s]>> ELSE <<>>)
          \o Scored(es, query, i + 1)

\* an insertion that puts x before the elements of equal score
RECURSIVE InsertDescBeforeTies(_, _)
InsertDescBeforeTies(sorted, x) ==
  IF sorted = <<>> THEN <<x>>
  ELSE IF ScoreGE(x.score, Head(sorted).score)
       THEN <<x>> \o sorted
       ELSE <<Head(sorted)>> \o InsertDescBeforeTies(Tail(sorted), x)

\* Insert x behind every element that does not compare Greater than it:
\* sort_by is stable, and the comparator is b.1.partial_cmp(&a.1).
RECURSIVE InsertDesc(_, _)
InsertDesc(sorted, x) ==
  IF sorted = <<>> THEN <<x>>
  ELSE IF ScoreGT(x.score, Head(sorted).score)
       THEN <<x>> \o sorted
       ELSE <<Head(sorted)>> \o InsertDesc(Tail(sorted), x)

RECURSIVE SortFrom(_, _, _)
SortFrom(sorted, seq, i) ==
  IF i > Len(seq) THEN sorted
  ELSE SortFrom(InsertDesc(sorted, seq[i]), seq, i + 1)

Unsorted(seq) == seq

\* scored.sort_by(|a, b| b.1.partial_cmp(&a.1).unwrap_or(Ordering::Equal))
SortByScoreDesc(seq) == SortFrom(<<>>, seq, 1)

TruncateOneMore(seq, n) == SubSeq(seq, 1, Min(n + 1, Len(seq)))

\* Vec::truncate(n)
Truncate(seq, n) == SubSeq(seq, 1, Min(n, Len(seq)))

\* VectorIndex::search
VectorIndex_search(es, query, top_k) ==
  IF is_empty(query)
  THEN <<>>
  ELSE Truncate(SortByScoreDesc(Scored(es, query, 1)), top_k)

(***************************************************************************)
(* The vector index: add_chunk appends, search ranks.                      *)
(***************************************************************************)
IndexEntry(c, d, v) == [chunk_id |-> c, doc_id |-> d, vector |-> v]

NoLookup ==
  [called |-> FALSE, query |-> EmptyVector, top_k |-> 0, result |-> <<>>]

IndexInit ==
  /\ entries = <<>>
  /\ lookup = NoLookup

\* VectorIndex::add_chunk
add_chunk(v) ==
  /\ ~lookup.called
  /\ Len(entries) < MaxEntries
  /\ entries' = Append(entries, IndexEntry(Len(entries) + 1, 0, v))
  /\ UNCHANGED lookup
  /\ UNCHANGED OutsideIndex

AddChunk == \E v \in SparseVector : add_chunk(v)

\* VectorIndex::search on the current entries, once the index is built
Search ==
  \E q \in SparseVector, k \in 0 .. MaxTopK :
    /\ ~lookup.called
    /\ lookup' = [called |-> TRUE, query |-> q, top_k |-> k,
                  result |-> VectorIndex_search(entries, q, k)]
    /\ UNCHANGED entries
    /\ UNCHANGED OutsideIndex

NextIndex == AddChunk \/ Search


(***************************************************************************)
(* Claims on VectorIndex.search                                            *)
(***************************************************************************)
Searched == lookup.called

\* C1: search returns at most top_k results (top_k = 0 included), and no
\* result at all when the query vector is empty.
C1_AtMostTopK ==
  Searched =>
    /\ Len(lookup.result) <= lookup.top_k
    /\ (lookup.query = {} => lookup.result = <<>>)

\* C1 witness: a search that had more candidates than top_k and was cut.
C1_Witness ==
  /\ Searched
  /\ lookup.top_k = 1
  /\ Len(lookup.result) = 1
  /\ Len(Scored(entries, lookup.query, 1)) = 2

C3_PositiveScores ==
  Searched =>
    /\ \A i \in 1 .. Len(lookup.result) : lookup.result[i].score.num.n > 0
    /\ \A j \in 1 .. Len(entries) :
         NormSq(entries[j].vector) = RZero =>
           /\ cosine_similarity(lookup.query, entries[j].vector) = ZeroScore
           /\ \A i \in 1 .. Len(lookup.result) : lookup.result[i].idx /= j - 1

\* C3 witness: a search with a result over an index that also holds a
\* non-empty vector of zero norm.
C3_Witness ==
  /\ Searched
  /\ Len(lookup.result) >= 1
  /\ \E j \in 1 .. Len(entries) :
       /\ entries[j].vector /= {}
       /\ NormSq(entries[j].vector) = RZero

\* the 0-based indices of the entries with positive similarity to the query
PositiveEntries ==
  {j \in 0 .. Len(entries) - 1 :
     cosine_similarity(lookup.query, entries[j + 1].vector).num.n > 0}

\* the entry indices that the search returned
ReturnedEntries == {lookup.result[i].idx : i \in 1 .. Len(lookup.result)}

\* C24: for a non-empty query, search returns exactly min(top_k, P) results,
\* P the number of entries with positive similarity to the query; the
\* returned entry indices are valid and pairwise distinct, no entry left out
\* has a higher score than a returned one, and returned entries of equal
\* score appear in insertion order.
C24_TopOfPositive ==
  (Searched /\ lookup.query /= {}) =>
    /\ Len(lookup.result) = Min(lookup.top_k, Cardinality(PositiveEntries))
    /\ ReturnedEntries \subseteq 0 .. Len(entries) - 1
    /\ Cardinality(ReturnedEntries) = Len(lookup.result)
    /\ \A i \in 1 .. Len(lookup.result) :
         lookup.result[i].score
           = cosine_similarity(lookup.query,
                               entries[lookup.result[i].idx + 1].vector)
    /\ \A j \in PositiveEntries \ ReturnedEntries :
         \A i \in 1 .. Len(lookup.result) :
           ~ScoreGT(cosine_similarity(lookup.query, entries[j + 1].vector),
                    lookup.result[i].score)
    /\ \A i \in 1 .. Len(lookup.result) - 1 :
         ScoreEQ(lookup.result[i].score, lookup.result[i + 1].score)
           => lookup.result[i].idx < lookup.result[i + 1].idx

\* C24 witness: two entries of equal positive similarity to the query, both
\* returned, in insertion order.
C24_Witness ==
  /\ Searched
  /\ lookup.top_k = 2
  /\ Len(lookup.result) = 2
  /\ ScoreEQ(lookup.result[1].score, lookup.result[2].score)
  /\ lookup.result[1].idx = 0
  /\ entries[1].vector /= entries[2].vector

(***************************************************************************)
(* Texts.  A text is a sequence of one-character strings; the characters   *)
(* of the model are ASCII, so a byte offset is a character position.       *)
(***************************************************************************)
\* char::is_whitespace
is_whitespace(c) == c \in {" ", "\n", "\r", "\t"}

\* char::is_ascii_whitespace
is_ascii_whitespace(c) == c \in {" ", "\n", "\r", "\t"}

RECURSIVE LeadingWhile(_, _, _)
\* the number of leading characters of s, from position i on, that are whitespace
LeadingWhile(s, i, ascii) ==
  IF i > Len(s) THEN 0
  ELSE IF (IF ascii THEN is_ascii_whitespace(s[i]) ELSE is_whitespace(s[i]))
       THEN 1 + LeadingWhile(s, i + 1, ascii)
       ELSE 0

RECURSIVE TrailingWhitespace(_, _)
TrailingWhitespace(s, i) ==
  IF i < 1 THEN 0
  ELSE IF is_whitespace(s[i]) THEN 1 + TrailingWhitespace(s, i - 1) ELSE 0

\* str::trim_start
trim_start(s) == SubSeq(s, LeadingWhile(s, 1, FALSE) + 1, Len(s))

\* str::trim_end
trim_end(s) == SubSeq(s, 1, Len(s) - TrailingWhitespace(s, Len(s)))

\* str::trim
trim(s) == trim_end(trim_start(s))

\* str::starts_with
starts_with(s, prefix) ==
  Len(prefix) <= Len(s) /\ SubSeq(s, 1, Len(prefix)) = prefix

\* str::find: the 0-based offset of the leftmost occurrence, or -1 (None)
find(hay, needle) ==
  LET At == {i \in 0 .. Len(hay) - Len(needle) :
               SubSeq(hay, i + 1, i + Len(needle)) = needle}
  IN IF At = {} THEN -1 ELSE CHOOSE i \in At : \A j \in At : i <= j

\* the texts of at most n characters over the alphabet A
RECURSIVE TextsUpTo(_, _)
TextsUpTo(A, n) ==
  IF n = 0 THEN {<<>>}
  ELSE LET Shorter == TextsUpTo(A, n - 1)
       IN Shorter \cup {Append(t, c) : t \in Shorter, c \in A}

(***************************************************************************)
(* normalization::normalize.  Of the characters of the model NFKC changes   *)
(* the ligature U+FB01 ("fi_lig"), which it decomposes into "f" and "i".   *)
(***************************************************************************)
nfkc_char(c) == IF c = "fi_lig" THEN <<"f", "i">> ELSE <<c>>

RECURSIVE nfkc(_)
nfkc(input) ==
  IF input = <<>> THEN <<>>
  ELSE nfkc_char(Head(input)) \o nfkc(Tail(input))

\* one turn of the for loop: st = [out, last_was_space, newline_count]
NormalizeChar(st, ch) ==
  IF ch = "\r" THEN st
  ELSE IF ch = "\n"
  THEN [out |-> IF st.newline_count < 2 THEN Append(st.out, "\n") ELSE st.out,
        last_was_space |-> TRUE,
        newline_count |-> st.newline_count + 1]
  ELSE IF is_whitespace(ch)
  THEN [out |-> IF ~st.last_was_space THEN Append(st.out, " ") ELSE st.out,
        last_was_space |-> TRUE,
        newline_count |-> 0]
  ELSE [out |-> Append(st.out, ch),
        last_was_space |-> FALSE,
        newline_count |-> 0]

RECURSIVE NormalizeFrom(_, _, _)
NormalizeFrom(st, input, i) ==
  IF i > Len(input) THEN st
  ELSE NormalizeFrom(NormalizeChar(st, input[i]), input, i + 1)

normalize(input) ==
  trim(NormalizeFrom([out |-> <<>>, last_was_space |-> FALSE,
                      newline_count |-> 0], nfkc(input), 1).out)

(***************************************************************************)
(* normalize applied to a text, and again to its own output.               *)
(***************************************************************************)
NormalizeAlphabet == {"a", " ", "\n", "\r"}

\* the input of tests::normalize_collapses_whitespace_and_nfkc
LigatureBarBaz ==
  <<"fi_lig", " ", " ", " ", "b", "a", "r", " ", "b", "a", "z">>

NormalizeInputs == TextsUpTo(NormalizeAlphabet, MaxText) \cup {LigatureBarBaz}

\* prev is the text before the last pass, text the text after it
Passes(input, prev, text, passes) ==
  [input |-> input, prev |-> prev, text |-> text, passes |-> passes]

NormalizeIdle == norm = Passes(<<>>, <<>>, <<>>, 0)

NormalizeInit == \E t \in NormalizeInputs : norm = Passes(t, t, t, 0)

\* normalize is called on the text: on the raw input first, then on what the
\* call before returned
Normalize ==
  /\ norm.passes < 2
  /\ norm' = Passes(norm.input, norm.text, normalize(norm.text),
                    norm.passes + 1)
  /\ UNCHANGED OutsideNormalize

NextNormalize == Normalize

\* C11: normalize is idempotent: a second pass over a normalized text
\* returns it unchanged.
C11_Idempotent == norm.passes = 2 => norm.text = norm.prev

\* the test of the source: the ligature is decomposed, the spaces collapse
LigatureTestHolds ==
  (norm.input = LigatureBarBaz /\ norm.passes = 1)
    => norm.text = <<"f", "i", " ", "b", "a", "r", " ", "b", "a", "z">>

(***************************************************************************)
(* The embedders (src/src/embedder.rs).  An embedder is the record         *)
(* [kind, min_freq, weights]: min_freq is read by TF only, weights (the    *)
(* token-weight table of the loaded manifest) by Custom only.              *)
(***************************************************************************)
Letters ==
  {"a", "b", "l", "p", "h", "e", "t", "f", "i", "o", "r", "z", "A", "B",
   "e_acute"}

\* char::to_lowercase
to_lowercase_char(c) == IF c = "A" THEN "a" ELSE IF c = "B" THEN "b" ELSE c

\* str::to_lowercase
to_lowercase(s) == [i \in 1 .. Len(s) |-> to_lowercase_char(s[i])]

\* UnicodeSegmentation::unicode_words: the maximal runs of letters, in order;
\* st = [words, word] with word the run being read
WordChar(st, ch) ==
  IF ch \in Letters
  THEN [st EXCEPT !.word = Append(st.word, ch)]
  ELSE IF st.word /= <<>>
  THEN [words |-> Append(st.words, st.word), word |-> <<>>]
  ELSE st

RECURSIVE WordsFrom(_, _, _)
WordsFrom(st, text, i) ==
  IF i > Len(text)
  THEN IF st.word /= <<>> THEN Append(st.words, st.word) ELSE st.words
  ELSE WordsFrom(WordChar(st, text[i]), text, i + 1)

unicode_words(text) == WordsFrom([words |-> <<>>, word |-> <<>>], text, 1)

\* tokenize: the words, lowercased
tokenize(text) ==
  LET words == unicode_words(text)
  IN [i \in 1 .. Len(words) |-> to_lowercase(words[i])]

\* the HashMap of occurrence counts, as a set of <<token, count>> pairs
Counts(tokens) ==
  {<<tokens[i], Cardinality({j \in 1 .. Len(tokens) : tokens[j] = tokens[i]})>> :
     i \in 1 .. Len(tokens)}

RECURSIVE Total(_)
Total(counts) ==
  IF counts = {} THEN 0
  ELSE LET p == CHOOSE x \in counts : TRUE
       IN p[2] + Total(counts \ {p})

\* normalize_counts
normalize_counts(counts) ==
  IF Total(counts) = 0 THEN EmptyVector
  ELSE {<<p[1], Rat(p[2], Total(counts))>> : p \in counts}

TfEmbedder(min_freq) ==
  [kind |-> "tf", min_freq |-> Max(min_freq, 1), weights |-> EmptyVector]

BagOfWordsEmbedder ==
  [kind |-> "bag-of-words", min_freq |-> 0, weights |-> EmptyVector]

CustomEmbedder(weights) ==
  [kind |-> "custom", min_freq |-> 0, weights |-> weights]

\* TF dividing each retained count by the total of all the counts
embed_over_all_counts(e, text) ==
  LET counts == Counts(tokenize(text))
  IN IF e.kind = "tf"
     THEN {<<p[1], Rat(p[2], Total(counts))>> :
             p \in {q \in counts : q[2] >= e.min_freq}}
     ELSE IF e.kind = "bag-of-words"
     THEN normalize_counts(counts)
     ELSE {p \in e.weights : \E q \in counts : q[1] = p[1]}

\* Embedder::embed of the three variants
embed(e, text) ==
  LET counts == Counts(tokenize(text))
  IN IF e.kind = "tf"
     THEN normalize_counts({p \in counts : p[2] >= e.min_freq})
     ELSE IF e.kind = "bag-of-words"
     THEN normalize_counts(counts)
     ELSE {p \in e.weights : \E q \in counts : q[1] = p[1]}

\* TF counting each distinct token once
token_count_distinct(e, text) ==
  IF e.kind = "tf" THEN Cardinality(Counts(tokenize(text)))
  ELSE Len(unicode_words(text))

\* Embedder::token_count
token_count(e, text) == Len(unicode_words(text))

(***************************************************************************)
(* The three embedder variants applied to one text.                        *)
(***************************************************************************)
EmbedAlphabet == {"a", "A", "b", " "}

FooFooBar == <<"f", "o", "o", " ", "f", "o", "o", " ", "b", "a", "r">>

EmbedTexts == TextsUpTo(EmbedAlphabet, MaxLen) \cup {FooFooBar}

\* the token_weights of the manifests that CustomEmbedder::load may read:
\* none, weights as train_model writes them, and weights of either sign
WeightTables ==
  { EmptyVector,
    {<< <<"a">>, Rat(2, 3) >>, << <<"b">>, Rat(1, 3) >>},
    {<< <<"a">>, RZero >>},
    {<< <<"a">>, ROne >>, << <<"b">>, Rat(-1, 1) >>} }

\* what one embedder returned: asked is the min_freq given to TfEmbedder::new
Embedded(called, asked, e, vector, count) ==
  [called |-> called, asked |-> asked, embedder |-> e, vector |-> vector,
   token_count |-> count]

NotEmbedded == Embedded(FALSE, 0, BagOfWordsEmbedder, EmptyVector, 0)

Embeddings(text, tf, bow, custom) ==
  [text |-> text, tf |-> tf, bow |-> bow, custom |-> custom]

EmbedIdle == emb = Embeddings(<<>>, NotEmbedded, NotEmbedded, NotEmbedded)

EmbedInit ==
  \E text \in EmbedTexts :
    emb = Embeddings(text, NotEmbedded, NotEmbedded, NotEmbedded)

\* TfEmbedder::new(min_freq), then embed and token_count on the text
EmbedTf ==
  /\ ~emb.tf.called
  /\ \E min_freq \in 0 .. MaxMinFreq :
       LET e == TfEmbedder(min_freq)
       IN emb' = [emb EXCEPT !.tf =
                    Embedded(TRUE, min_freq, e, embed(e, emb.text),
                             token_count(e, emb.text))]
  /\ UNCHANGED OutsideEmbed

\* BagOfWordsEmbedder: embed and token_count on the text
EmbedBagOfWords ==
  /\ ~emb.bow.called
  /\ LET e == BagOfWordsEmbedder
     IN emb' = [emb EXCEPT !.bow =
                  Embedded(TRUE, 0, e, embed(e, emb.text),
                           token_count(e, emb.text))]
  /\ UNCHANGED OutsideEmbed

\* CustomEmbedder::load of a manifest, then embed and token_count on the text
EmbedCustom ==
  /\ ~emb.custom.called
  /\ \E weights \in WeightTables :
       LET e == CustomEmbedder(weights)
       IN emb' = [emb EXCEPT !.custom =
                    Embedded(TRUE, 0, e, embed(e, emb.text),
                             token_count(e, emb.text))]
  /\ UNCHANGED OutsideEmbed

NextEmbed == EmbedTf \/ EmbedBagOfWords \/ EmbedCustom

(***************************************************************************)
(* Claims on the embedders                                                 *)
(***************************************************************************)
\* the number of words of the text that are the token when lowercased
Occurrences(token) ==
  LET words == unicode_words(emb.text)
  IN Cardinality({i \in 1 .. Len(words) : to_lowercase(words[i]) = token})

LowercasedTokens ==
  LET words == unicode_words(emb.text)
  IN {to_lowercase(words[i]) : i \in 1 .. Len(words)}

\* the tokens that occur at least max(m, 1) times, m the min_freq asked for
Retained ==
  {t \in LowercasedTokens : Occurrences(t) >= Max(emb.tf.asked, 1)}

RECURSIVE SumOfOccurrences(_)
SumOfOccurrences(S) ==
  IF S = {} THEN 0
  ELSE LET t == CHOOSE x \in S : TRUE
       IN Occurrences(t) + SumOfOccurrences(S \ {t})

\* the example of the spec: "foo foo bar" with min_freq 1
TfFooFooBar ==
  (emb.tf.called /\ emb.text = FooFooBar /\ emb.tf.asked = 1)
    => emb.tf.vector = {<< <<"f", "o", "o">>, Rat(2, 3) >>,
                        << <<"b", "a", "r">>, Rat(1, 3) >>}

\* C17: the TF vector has exactly the retained tokens as keys, each with
\* weight count / (sum of the retained counts); the weights sum to 1, and
\* the vector is empty when no token is retained; "foo foo bar" with
\* min_freq 1 gives foo 2/3 and bar 1/3.
C17_TfWeights ==
  emb.tf.called
    => /\ Keys(emb.tf.vector) = Retained
       /\ \A p \in emb.tf.vector :
            p[2] = Rat(Occurrences(p[1]), SumOfOccurrences(Retained))
       /\ Retained /= {} => RSum(emb.tf.vector) = ROne
       /\ Retained = {} => emb.tf.vector = EmptyVector
       /\ TfFooFooBar

\* C17 witness: a minimum frequency of 2 has dropped one token of the text
\* and kept another.
C17_Witness ==
  /\ emb.tf.called
  /\ emb.tf.asked = 2
  /\ Retained /= {}
  /\ Retained /= LowercasedTokens
  /\ emb.tf.vector /= EmptyVector

\* C18: the Bag-of-words vector equals the TF vector of minimum frequency 0
\* or 1, and the two embedders report the same token_count.
C18_BagOfWordsIsUnfilteredTf ==
  (emb.tf.called /\ emb.bow.called /\ emb.tf.asked <= 1)
    => /\ emb.bow.vector = emb.tf.vector
       /\ emb.bow.token_count = emb.tf.token_count

\* C18 witness: both embedders have run on a text with a repeated token
\* written in two cases, TF with minimum frequency 0.
C18_Witness ==
  /\ emb.tf.called
  /\ emb.bow.called
  /\ emb.tf.asked = 0
  /\ emb.bow.token_count = 3
  /\ Cardinality(emb.bow.vector) = 2
  /\ \E i \in 1 .. Len(emb.text) : emb.text[i] = "A"

NonNegativeAndNotZero(v) ==
  /\ \A p \in v : ~RLess(p[2], RZero)
  /\ v /= EmptyVector => RLess(RZero, RSum(v))

\* C19: the vector returned by each of the three embedder variants has only
\* non-negative weights and, unless it is empty, a total weight above zero.
C19_NonNegativeVectors ==
  /\ emb.tf.called => NonNegativeAndNotZero(emb.tf.vector)
  /\ emb.bow.called => NonNegativeAndNotZero(emb.bow.vector)
  /\ emb.custom.called => NonNegativeAndNotZero(emb.custom.vector)

(***************************************************************************)
(* The chunker (src/src/chunk.rs).  A run is the record                    *)
(*   cfg      the Chunker's fields                                         *)
(*   input    the text given to chunk()                                    *)
(*   pc       "new" (constructed), "structured" / "fixed" (at the head of  *)
(*            the while loop), "done" (returned), "panic" (unwound)        *)
(*   cursor   the loop's cursor, prev its value one iteration earlier      *)
(*   tokens   token_positions(input), for the Fixed strategy               *)
(*   results  the chunks pushed so far, seen the dedup set                 *)
(***************************************************************************)
Structured == "structured"

Fixed == "fixed"

NN == <<"\n", "\n">>

default_chunk_separators ==
  << NN, <<"\r", "\n", "\r", "\n">>, <<"\n", "-", "\n">>, <<"\n", "*", "\n">> >>

default_max_tokens == 200

default_overlap == 32

\* Chunker::with_config
with_config(strategy, max_tokens, overlap, split, dedupe, separators) ==
  [strategy |-> strategy, max_tokens |-> max_tokens, overlap |-> overlap,
   split_on_double_newline |-> split, dedupe_segments |-> dedupe,
   chunk_separators |-> separators]

\* skip_newlines
skip_newlines(remainder) == LeadingWhile(remainder, 1, TRUE)

\* find_split_length: best = [idx, len], or [idx |-> -1] for None
RECURSIVE FindSplitFrom(_, _, _, _)
FindSplitFrom(best, remaining, separators, k) ==
  IF k > Len(separators) THEN best
  ELSE LET sep == separators[k]
           idx == find(remaining, sep)
       IN IF sep = <<>> \/ idx = -1
          THEN FindSplitFrom(best, remaining, separators, k + 1)
          ELSE IF best.idx /= -1 /\ best.idx <= idx
          THEN FindSplitFrom(best, remaining, separators, k + 1)
          ELSE FindSplitFrom([idx |-> idx, len |-> Len(sep)],
                             remaining, separators, k + 1)

\* the split at the first listed separator that occurs, wherever it occurs
find_split_first_listed(remaining, separators) ==
  LET occurring == {k \in 1 .. Len(separators) :
                      /\ separators[k] /= <<>>
                      /\ find(remaining, separators[k]) /= -1}
  IN IF occurring = {}
     THEN [split_len |-> Len(remaining), sep_len |-> 0]
     ELSE LET k == CHOOSE k \in occurring : \A j \in occurring : k <= j
          IN [split_len |-> find(remaining, separators[k]),
              sep_len |-> Len(separators[k])]

\* find_split_length
find_split_length(remaining, separators) ==
  LET best == FindSplitFrom([idx |-> -1, len |-> 0], remaining, separators, 1)
  IN IF best.idx = -1
     THEN [split_len |-> Len(remaining), sep_len |-> 0]
     ELSE [split_len |-> best.idx, sep_len |-> best.len]

\* token_positions: st = [positions, start], start = -1 for None
TokenChar(st, idx, ch) ==
  IF is_whitespace(ch)
  THEN IF st.start /= -1
       THEN [positions |-> Append(st.positions,
                                  [start |-> st.start, end |-> idx]),
             start |-> -1]
       ELSE st
  ELSE IF st.start = -1 THEN [st EXCEPT !.start = idx] ELSE st

RECURSIVE TokensFrom(_, _, _)
TokensFrom(st, input, i) ==
  IF i > Len(input)
  THEN IF st.start /= -1
       THEN Append(st.positions, [start |-> st.start, end |-> Len(input)])
       ELSE st.positions
  ELSE TokensFrom(TokenChar(st, i - 1, input[i]), input, i + 1)

token_positions(input) ==
  TokensFrom([positions |-> <<>>, start |-> -1], input, 1)

\* a Chunk
Chunk(id, doc_id, text, start, end, strategy) ==
  [id |-> id, doc_id |-> doc_id, text |-> text, start |-> start, end |-> end,
   strategy |-> strategy]

\* segment() without the duplicate check
segment_keeps_duplicates(dedupe, absolute_start, doc_id, uuid, text, strategy, seen) ==
  LET trimmed == trim(text)
  IN IF trimmed = <<>>
     THEN [chunk |-> <<>>, seen |-> seen]
     ELSE [chunk |-> <<Chunk(uuid, doc_id, normalize(trimmed),
                             absolute_start + (Len(text) - Len(trim_start(text))),
                             absolute_start + Len(trim_end(text)), strategy)>>,
           seen |-> seen]

\* segment() taking the end offset from the length of the trimmed text
segment_end_from_trimmed(dedupe, absolute_start, doc_id, uuid, text, strategy, seen) ==
  LET trimmed == trim(text)
  IN IF trimmed = <<>>
     THEN [chunk |-> <<>>, seen |-> seen]
     ELSE IF dedupe /\ trimmed \in seen
     THEN [chunk |-> <<>>, seen |-> seen]
     ELSE [chunk |-> <<Chunk(uuid, doc_id, normalize(trimmed),
                             absolute_start + (Len(text) - Len(trim_start(text))),
                             absolute_start + Len(trimmed), strategy)>>,
           seen |-> IF dedupe THEN seen \cup {trimmed} ELSE seen]

\* Chunker::segment: Some(chunk) as <<chunk>>, None as <<>>, and the dedup
\* set after the call; uuid is the fresh Uuid::new_v4() of the chunk
segment(dedupe, absolute_start, doc_id, uuid, text, strategy, seen) ==
  LET trimmed == trim(text)
  IN IF trimmed = <<>>
     THEN [chunk |-> <<>>, seen |-> seen]
     ELSE IF dedupe /\ trimmed \in seen
     THEN [chunk |-> <<>>, seen |-> seen]
     ELSE [chunk |-> <<Chunk(uuid, doc_id, normalize(trimmed),
                             absolute_start + (Len(text) - Len(trim_start(text))),
                             absolute_start + Len(trim_end(text)), strategy)>>,
           seen |-> IF dedupe THEN seen \cup {trimmed} ELSE seen]

\* if let Some(chunk) = .. { results.push(chunk) }
Pushed(results, got) == results \o got.chunk

\* the step of windows that do not overlap
step_without_overlap(cfg) == Max(cfg.max_tokens, 1)

step_unclamped(cfg) ==
  IF cfg.max_tokens >= cfg.overlap THEN cfg.max_tokens - cfg.overlap ELSE 0

\* (max_tokens.saturating_sub(overlap)).max(1)
step(cfg) ==
  Max(IF cfg.max_tokens >= cfg.overlap THEN cfg.max_tokens - cfg.overlap ELSE 0,
      1)

NewRun(cfg) ==
  [cfg |-> cfg, doc_id |-> 0, input |-> <<>>, pc |-> "new", cursor |-> 0,
   prev |-> -1, tokens |-> <<>>, results |-> <<>>, seen |-> {}, uuid |-> 0]

\* Chunker::chunk up to the head of the strategy's loop; uuid is the number
\* of Uuids drawn before the call
chunk_enter(run, doc_id, input, uuid) ==
  LET called == [run EXCEPT !.doc_id = doc_id, !.input = input, !.uuid = uuid]
  IN IF run.cfg.strategy = Structured
     THEN [called EXCEPT !.pc = "structured"]
     ELSE LET tokens == token_positions(input)
          IN IF tokens = <<>>
             THEN [called EXCEPT !.pc = "done"]
             ELSE [called EXCEPT !.tokens = tokens, !.pc = "fixed"]

\* one evaluation of `while cursor < input.len()` and of the loop body
structured_iter(run) ==
  IF ~(run.cursor < Len(run.input))
  THEN [run EXCEPT !.pc = "done"]
  ELSE
    LET remaining == SubSeq(run.input, run.cursor + 1, Len(run.input))
        split == IF run.cfg.split_on_double_newline
                 THEN find_split_length(remaining, run.cfg.chunk_separators)
                 ELSE [split_len |-> Len(remaining), sep_len |-> 0]
        text == SubSeq(run.input, run.cursor + 1, run.cursor + split.split_len)
        got == segment(run.cfg.dedupe_segments, run.cursor, run.doc_id,
                       run.uuid + Len(run.results) + 1, text, Structured,
                       run.seen)
        past == run.cursor + split.split_len + split.sep_len
    IN IF split.split_len = Len(remaining)
       THEN [run EXCEPT !.results = Pushed(run.results, got),
                        !.seen = got.seen, !.pc = "done"]
       ELSE [run EXCEPT !.results = Pushed(run.results, got),
                        !.seen = got.seen,
                        !.prev = run.cursor,
                        !.cursor = past + skip_newlines(
                            SubSeq(run.input, past + 1, Len(run.input)))]

\* one evaluation of `while cursor < tokens.len()` and of the loop body;
\* with end = 0, tokens[end - 1] panics (the subtraction overflows, or the
\* wrapped index is out of range)
fixed_iter(run) ==
  IF ~(run.cursor < Len(run.tokens))
  THEN [run EXCEPT !.pc = "done"]
  ELSE
    LET end == Min(run.cursor + run.cfg.max_tokens, Len(run.tokens))
    IN IF end = 0
       THEN [run EXCEPT !.pc = "panic"]
       ELSE
         LET start_pos == run.tokens[run.cursor + 1].start
             end_pos == run.tokens[end].end
         IN IF start_pos > end_pos
            THEN [run EXCEPT !.pc = "panic"]
            ELSE
              LET got == segment(run.cfg.dedupe_segments, start_pos,
                                 run.doc_id,
                                 run.uuid + Len(run.results) + 1,
                                 SubSeq(run.input, start_pos + 1, end_pos),
                                 Fixed, run.seen)
              IN IF end = Len(run.tokens)
                 THEN [run EXCEPT !.results = Pushed(run.results, got),
                                  !.seen = got.seen, !.pc = "done"]
                 ELSE [run EXCEPT !.results = Pushed(run.results, got),
                                  !.seen = got.seen,
                                  !.prev = run.cursor,
                                  !.cursor = run.cursor + step(run.cfg)]

Running(run) == run.pc \in {"structured", "fixed"}

RunIter(run) ==
  IF run.pc = "structured" THEN structured_iter(run) ELSE fixed_iter(run)

\* Chunker::chunk as a whole: the run after the loop has ended
RECURSIVE RunToEnd(_)
RunToEnd(run) == IF Running(run) THEN RunToEnd(RunIter(run)) ELSE run

chunk(cfg, doc_id, input, uuid) ==
  RunToEnd(chunk_enter(NewRun(cfg), doc_id, input, uuid))

(***************************************************************************)
(* The chunker's inputs: texts and configurations.                         *)
(***************************************************************************)
ChunkAlphabet == {"a", "b", " ", "\n"}

AlphaBetaAlpha ==
  <<"a", "l", "p", "h", "a", "\n", "\n", "b", "e", "t", "a", "\n", "\n",
    "a", "l", "p", "h", "a">>

ChunkInputs == TextsUpTo(ChunkAlphabet, MaxLen) \cup {AlphaBetaAlpha}

SeparatorLists ==
  { <<>>, <<NN>>, << <<"\n">> >>, << <<>>, NN >>, << <<" ">>, NN >>,
    << <<"a">> >>, default_chunk_separators }

ChunkerConfigs ==
  {with_config(Fixed, m, o, TRUE, d, default_chunk_separators) :
     m \in 0 .. MaxTokens, o \in 0 .. MaxOverlap, d \in BOOLEAN}
  \cup
  {with_config(Structured, default_max_tokens, default_overlap, sp, d, seps) :
     sp \in BOOLEAN, d \in BOOLEAN, seps \in SeparatorLists}

ChunkIdle == ck = NewRun(with_config(Structured, default_max_tokens,
                                     default_overlap, TRUE, TRUE,
                                     default_chunk_separators))

ChunkInit == \E cfg \in ChunkerConfigs : ck = NewRun(cfg)

\* Chunker::chunk is called
ChunkCall ==
  /\ ck.pc = "new"
  /\ \E input \in ChunkInputs : ck' = chunk_enter(ck, 0, input, 0)
  /\ UNCHANGED OutsideChunk

\* one iteration of Chunker::structured
StructuredStep ==
  /\ ck.pc = "structured"
  /\ ck' = structured_iter(ck)
  /\ UNCHANGED OutsideChunk

\* one iteration of Chunker::fixed
FixedStep ==
  /\ ck.pc = "fixed"
  /\ ck' = fixed_iter(ck)
  /\ UNCHANGED OutsideChunk

NextChunk == ChunkCall \/ StructuredStep \/ FixedStep

(***************************************************************************)
(* Claims on Chunker.chunk                                                 *)
(***************************************************************************)
Returned == ck.pc = "done"

\* C7: every chunk satisfies 0 <= start < end <= length of the input, and
\* the start offsets never decrease along the result sequence, under either
\* strategy.
C7_RangesOrdered ==
  /\ \A i \in 1 .. Len(ck.results) :
       /\ 0 <= ck.results[i].start
       /\ ck.results[i].start < ck.results[i].end
       /\ ck.results[i].end <= Len(ck.input)
  /\ \A i \in 1 .. Len(ck.results) - 1 :
       ck.results[i].start <= ck.results[i + 1].start

\* C7 witness: a returned Structured run of two chunks, the second one cut
\* out of a segment with whitespace on both sides.
C7_Witness ==
  /\ Returned
  /\ ck.cfg.strategy = Structured
  /\ Len(ck.results) = 2
  /\ ck.results[2].end < Len(ck.input)
  /\ ck.results[2].start > ck.results[1].end + 1

\* C8: under Fixed chunking the start offsets strictly increase along the
\* result sequence and no chunk text is empty, with dedup on or off.
C8_FixedStrictStarts ==
  ck.cfg.strategy = Fixed =>
    /\ \A i \in 1 .. Len(ck.results) - 1 :
         ck.results[i].start < ck.results[i + 1].start
    /\ \A i \in 1 .. Len(ck.results) : ck.results[i].text /= <<>>

\* C8 witness: a returned Fixed run with overlap >= max_tokens (step clamped
\* to 1) whose two windows overlap.
C8_Witness ==
  /\ Returned
  /\ ck.cfg.strategy = Fixed
  /\ ck.cfg.overlap >= ck.cfg.max_tokens
  /\ Len(ck.results) = 2
  /\ ck.results[2].start < ck.results[1].end

\* Structured chunking with separator splitting enabled
SeparatorSplitting ==
  ck.cfg.strategy = Structured /\ ck.cfg.split_on_double_newline

\* the configured non-empty separators
Separators ==
  {ck.cfg.chunk_separators[k] : k \in 1 .. Len(ck.cfg.chunk_separators)}
    \ {<<>>}

\* sep occurs in the input at the 0-based offset o
SeparatorAt(sep, o) ==
  /\ o + Len(sep) <= Len(ck.input)
  /\ SubSeq(ck.input, o + 1, o + Len(sep)) = sep

\* the offsets from `from` on at which a configured separator occurs
OccurrencesFrom(from) ==
  {o \in from .. Len(ck.input) : \E sep \in Separators : SeparatorAt(sep, o)}

\* C27: in Structured chunking with separator splitting, a split is made at
\* the leftmost occurrence of a configured non-empty separator in the
\* remaining text (the cursor moves past that separator and the whitespace
\* behind it); the source range of every chunk contains no occurrence of a
\* configured separator, and the ranges of the chunks are pairwise disjoint.
C27_SplitsAtLeftmost ==
  SeparatorSplitting =>
    /\ (ck.pc = "structured" /\ ck.prev >= 0)
         => /\ OccurrencesFrom(ck.prev) /= {}
            /\ LET at == CHOOSE o \in OccurrencesFrom(ck.prev) :
                           \A x \in OccurrencesFrom(ck.prev) : o <= x
               IN /\ \E sep \in Separators :
                       /\ SeparatorAt(sep, at)
                       /\ at + Len(sep) <= ck.cursor
                       /\ \A j \in at + Len(sep) + 1 .. ck.cursor :
                            is_ascii_whitespace(ck.input[j])
                  /\ \A i \in 1 .. Len(ck.results) : ck.results[i].end <= at
    /\ \A i \in 1 .. Len(ck.results) :
         \A sep \in Separators :
           \A o \in ck.results[i].start .. ck.results[i].end :
             SeparatorAt(sep, o) => o + Len(sep) > ck.results[i].end
    /\ \A i, j \in 1 .. Len(ck.results) :
         i < j => ck.results[i].end <= ck.results[j].start

\* C27 witness: with two configured separators, the text was split at the
\* one listed second, which occurs first, and then at the one listed first;
\* three chunks were returned.
C27_Witness ==
  /\ Returned
  /\ SeparatorSplitting
  /\ Len(ck.cfg.chunk_separators) = 2
  /\ Len(ck.results) = 3
  /\ SeparatorAt(ck.cfg.chunk_separators[2], ck.results[1].end)
  /\ SeparatorAt(ck.cfg.chunk_separators[1], ck.results[2].end)

\* [s, e) is a whitespace token of the input: a maximal run of characters
\* that are not whitespace
IsToken(s, e) ==
  /\ 0 <= s /\ s < e /\ e <= Len(ck.input)
  /\ \A j \in s + 1 .. e : ~is_whitespace(ck.input[j])
  /\ s = 0 \/ is_whitespace(ck.input[s])
  /\ e = Len(ck.input) \/ is_whitespace(ck.input[e + 1])

InputTokens ==
  {t \in (0 .. Len(ck.input)) \X (0 .. Len(ck.input)) : IsToken(t[1], t[2])}

\* the token of 0-based index k among the tokens T
TokenAt(T, k) ==
  CHOOSE t \in T : Cardinality({u \in T : u[1] < t[1]}) = k

WindowStep ==
  IF ck.cfg.max_tokens - ck.cfg.overlap >= 1
  THEN ck.cfg.max_tokens - ck.cfg.overlap ELSE 1

\* the byte range of the window of 0-based index i over the tokens T
Window(T, i) ==
  [start |-> TokenAt(T, i * WindowStep)[1],
   end |-> TokenAt(T, Min(i * WindowStep + ck.cfg.max_tokens,
                          Cardinality(T)) - 1)[2]]

\* the indices of the windows over the tokens T: up to the first window that
\* reaches the last token
Windows(T) ==
  {i \in 0 .. Cardinality(T) - 1 :
     \A j \in 0 .. i - 1 :
       j * WindowStep + ck.cfg.max_tokens < Cardinality(T)}

\* C28: in Fixed chunking with max_tokens >= 1 the windows start at the
\* token indices i * max(max_tokens - overlap, 1), span at most max_tokens
\* tokens from the start of their first token to the end of their last one,
\* and end with the first window that reaches the last token: every chunk is
\* cut from one of these windows, in their order; with dedup disabled the
\* returned chunks are exactly these windows and every token lies inside a
\* chunk.
C28_FixedWindows ==
  (ck.cfg.strategy = Fixed /\ ck.cfg.max_tokens >= 1 /\ ck.pc /= "new") =>
    \A T \in {InputTokens} :
      /\ ck.pc /= "panic"
      /\ ck.pc = "fixed" => \E i \in Windows(T) : ck.cursor = i * WindowStep
      /\ \A n \in 1 .. Len(ck.results) :
           \E i \in Windows(T) :
             /\ ck.results[n].start = Window(T, i).start
             /\ ck.results[n].end = Window(T, i).end
             /\ n < Len(ck.results)
                  => ck.results[n + 1].start > Window(T, i).start
      /\ (Returned /\ ~ck.cfg.dedupe_segments)
           => /\ Len(ck.results) = Cardinality(Windows(T))
              /\ \A i \in Windows(T) :
                   /\ ck.results[i + 1].start = Window(T, i).start
                   /\ ck.results[i + 1].end = Window(T, i).end
              /\ \A t \in T :
                   \E n \in 1 .. Len(ck.results) :
                     ck.results[n].start <= t[1] /\ t[2] <= ck.results[n].end

\* C28 witness: a Fixed run without dedup over three tokens with windows of
\* two tokens and an overlap of one has returned two chunks that share the
\* second token.
C28_Witness ==
  /\ Returned
  /\ ck.cfg.strategy = Fixed
  /\ ~ck.cfg.dedupe_segments
  /\ ck.cfg.max_tokens = 2
  /\ ck.cfg.overlap = 1
  /\ Cardinality(InputTokens) = 3
  /\ Len(ck.results) = 2
  /\ ck.results[2].start = TokenAt(InputTokens, 1)[1]
  /\ ck.results[1].end = TokenAt(InputTokens, 1)[2]

\* The separator lists for which C9 is stated as amended: "\n\n" is
\* configured and no other configured separator occurs in the text.
OnlyDoubleNewlineSplits(cfg) ==
  /\ \E k \in 1 .. Len(cfg.chunk_separators) : cfg.chunk_separators[k] = NN
  /\ \A k \in 1 .. Len(cfg.chunk_separators) :
       \/ cfg.chunk_separators[k] \in {<<>>, NN}
       \/ find(AlphaBetaAlpha, cfg.chunk_separators[k]) = -1

IsAlphaBeta(results) ==
  /\ Len(results) = 2
  /\ results[1].text = <<"a", "l", "p", "h", "a">>
  /\ results[2].text = <<"b", "e", "t", "a">>

ContainsAlphaAndBeta(results) ==
  /\ Len(results) = 2
  /\ \E i \in 1 .. 2 : find(results[i].text, <<"a", "l", "p", "h", "a">>) /= -1
  /\ \E i \in 1 .. 2 : find(results[i].text, <<"b", "e", "t", "a">>) /= -1

C9_Case ==
  /\ Returned
  /\ ck.cfg.strategy = Structured
  /\ ck.cfg.split_on_double_newline
  /\ ck.cfg.dedupe_segments
  /\ ck.input = AlphaBetaAlpha

\* C9 as amended: with dedup and separator splitting enabled, and a
\* separator list that holds "\n\n" and no other separator occurring in the
\* text, Structured chunking of alpha / blank / beta / blank / alpha returns
\* exactly the two chunks alpha and beta.
C9_TwoChunks ==
  (C9_Case /\ OnlyDoubleNewlineSplits(ck.cfg)) =>
    /\ IsAlphaBeta(ck.results)
    /\ ContainsAlphaAndBeta(ck.results)

\* C9 as stated: the same for every configured separator list.
C9_AnySeparators == C9_Case => ContainsAlphaAndBeta(ck.results)

\* C9 witness: the run of the amended claim's case, with an empty separator
\* string configured before "\n\n".
C9_Witness ==
  /\ C9_Case
  /\ OnlyDoubleNewlineSplits(ck.cfg)
  /\ ck.cfg.chunk_separators = << <<>>, NN >>
  /\ IsAlphaBeta(ck.results)

\* C10: chunk advances its cursor on every iteration and terminates
\* normally, for every max_tokens, overlap and separator list.
C10_CursorAdvances == Running(ck) => ck.cursor > ck.prev

C10_AdvancesAndReturns ==
  /\ ck.pc /= "panic"
  /\ (Running(ck) => ck.cursor > ck.prev)

(***************************************************************************)
(* Context assembly (src/src/stage3.rs).  String::len counts bytes and     *)
(* truncate counts characters: "e_acute" stands for the character U+00E9,  *)
(* two bytes in UTF-8; every other character of the model is one byte.     *)
(***************************************************************************)
utf8_len(c) == IF c = "e_acute" THEN 2 ELSE 1

\* String::len: the length in bytes
RECURSIVE ByteLen(_)
ByteLen(s) == IF s = <<>> THEN 0 ELSE utf8_len(Head(s)) + ByteLen(Tail(s))

ContextSeparator == <<"\n", "-", "-", "-", "\n">>

\* truncate: text.chars().take(max).collect()
truncate(text, max) ==
  IF max = 0 THEN <<>> ELSE SubSeq(text, 1, Min(max, Len(text)))

\* budget - context.len() on usize: below zero the subtraction panics when
\* the build checks overflow, and wraps to 2^64 - (used - budget) when it
\* does not; the wrapped value exceeds the length of every text, which is
\* all that take(max) reads of it
Remaining(budget, used, overflow_checks) ==
  IF budget >= used
  THEN [panic |-> FALSE, wrapped |-> FALSE, max |-> budget - used]
  ELSE IF overflow_checks
  THEN [panic |-> TRUE, wrapped |-> FALSE, max |-> 0]
  ELSE [panic |-> FALSE, wrapped |-> TRUE, max |-> 0]

\* build_context: one turn of `for entry in hits`; st = [context, pc]
ContextEntry(st, text, budget, overflow_checks) ==
  IF st.pc /= "loop" THEN st
  ELSE IF ByteLen(st.context) >= budget THEN [st EXCEPT !.pc = "break"]
  ELSE LET addition == trim(text)
       IN IF addition = <<>> THEN st
          ELSE LET joined == IF st.context /= <<>>
                             THEN st.context \o ContextSeparator
                             ELSE st.context
                   rem == Remaining(budget, ByteLen(joined), overflow_checks)
               IN IF rem.panic
                  THEN [context |-> joined, pc |-> "panic"]
                  ELSE [context |->
                          joined \o (IF rem.wrapped THEN addition
                                     ELSE truncate(addition, rem.max)),
                        pc |-> "loop"]

RECURSIVE ContextFrom(_, _, _, _, _)
ContextFrom(st, hits, i, budget, overflow_checks) ==
  IF i > Len(hits) THEN st
  ELSE ContextFrom(ContextEntry(st, hits[i], budget, overflow_checks),
                   hits, i + 1, budget, overflow_checks)

\* build_context over the chunk texts of the reranked hits
build_context(hits, budget, overflow_checks) ==
  LET st == ContextFrom([context |-> <<>>, pc |-> "loop"], hits, 1, budget,
                        overflow_checks)
  IN [panicked |-> st.pc = "panic", context |-> st.context]

AlphaBeta == <<"a", "l", "p", "h", "a", " ", "b", "e", "t", "a">>

HitTexts ==
  { <<>>, <<" ">>, <<"a">>, <<"e_acute", "e_acute">>, <<" ", "a", "b">>, AlphaBeta }

RECURSIVE SeqsUpTo(_, _)
SeqsUpTo(S, n) ==
  IF n = 0 THEN {<<>>}
  ELSE LET Shorter == SeqsUpTo(S, n - 1)
       IN Shorter \cup {Append(q, x) : q \in Shorter, x \in S}

NoContext ==
  [called |-> FALSE, hits |-> <<>>, budget |-> 0, overflow_checks |-> FALSE,
   panicked |-> FALSE, context |-> <<>>]

ContextIdle == ctx = NoContext

\* build_context is called on a list of reranked hits
BuildContext ==
  /\ ~ctx.called
  /\ \E hits \in SeqsUpTo(HitTexts, MaxHits), budget \in 0 .. MaxBudget,
        oc \in BOOLEAN :
       LET out == build_context(hits, budget, oc)
       IN ctx' = [called |-> TRUE, hits |-> hits, budget |-> budget,
                  overflow_checks |-> oc, panicked |-> out.panicked,
                  context |-> out.context]
  /\ UNCHANGED OutsideContext

NextContext == BuildContext

(***************************************************************************)
(* Claims on build_context                                                 *)
(***************************************************************************)
\* C6: the context returned by build_context is at most budget characters
\* long, and the single hit "alpha beta" with budget 3 gives exactly "alp".
C6_WithinBudget ==
  (ctx.called /\ ~ctx.panicked) =>
    /\ Len(ctx.context) <= ctx.budget
    /\ (ctx.hits = <<AlphaBeta>> /\ ctx.budget = 3
          => ctx.context = <<"a", "l", "p">>)

(***************************************************************************)
(* The corpus state (src/src/state.rs) and the search-hit assembly         *)
(* (src/src/search.rs).                                                    *)
(***************************************************************************)
State(documents, chunks, index_entries) ==
  [documents |-> documents, chunks |-> chunks, index_entries |-> index_entries]

\* State::default
EmptyState == State(<<>>, <<>>, <<>>)

Document(id, path, hash, tokens) ==
  [id |-> id, path |-> path, hash |-> hash, token_count |-> tokens]

\* a lookup among the digests of the paths of the documents
has_document_by_path(state, hash) ==
  \E i \in 1 .. Len(state.documents) :
    [sha256 |-> state.documents[i].path] = hash

\* State::has_document
has_document(state, hash) ==
  \E i \in 1 .. Len(state.documents) : state.documents[i].hash = hash

\* Iterator::find: Some(first element at one of the positions At) as <<x>>,
\* None as <<>>
FindFirst(seq, At) ==
  IF At = {} THEN <<>>
  ELSE <<seq[CHOOSE i \in At : \A j \in At : i <= j]>>

\* State::find_chunk
find_chunk(state, chunk_id) ==
  FindFirst(state.chunks,
            {i \in 1 .. Len(state.chunks) : state.chunks[i].id = chunk_id})

\* State::find_document
find_document(state, doc_id) ==
  FindFirst(state.documents,
            {i \in 1 .. Len(state.documents) : state.documents[i].id = doc_id})

\* *score >= score_threshold, the threshold an exact fraction
AtLeast(score, threshold) ==
  ~RLess(SignedSq(score.num), RMul(SignedSq(threshold), score.den2))

Ok(hits) == [ok |-> TRUE, error |-> "", hits |-> hits]

Err(msg) == [ok |-> FALSE, error |-> msg, hits |-> <<>>]

\* the for loop of search_hits dropping the matches that do not resolve
RECURSIVE ResolveSkipping(_, _, _, _, _)
ResolveSkipping(results, filtered, i, state, es) ==
  IF i > Len(filtered) THEN Ok(results)
  ELSE
    LET entry == es[filtered[i].idx + 1]
        c == find_chunk(state, entry.chunk_id)
        d == find_document(state, entry.doc_id)
    IN IF c = <<>> \/ d = <<>>
       THEN ResolveSkipping(results, filtered, i + 1, state, es)
       ELSE ResolveSkipping(
              Append(results, [chunk |-> c[1], document |-> d[1],
                               score |-> filtered[i].score]),
              filtered, i + 1, state, es)

\* the for loop of search_hits: each `?` returns the error at once
RECURSIVE Resolve(_, _, _, _, _)
Resolve(results, filtered, i, state, es) ==
  IF i > Len(filtered) THEN Ok(results)
  ELSE IF filtered[i].idx + 1 > Len(es)
  THEN Err("missing index entry for search result")
  ELSE
    LET entry == es[filtered[i].idx + 1]
        c == find_chunk(state, entry.chunk_id)
        d == find_document(state, entry.doc_id)
    IN IF c = <<>> THEN Err("chunk metadata missing")
       ELSE IF d = <<>> THEN Err("document metadata missing")
       ELSE Resolve(Append(results, [chunk |-> c[1], document |-> d[1],
                                     score |-> filtered[i].score]),
                    filtered, i + 1, state, es)

\* the filter of search_hits keeping only the scores above the threshold
FilteredStrictly(matches, score_threshold) ==
  SelectSeq(matches,
            LAMBDA m : RLess(RMul(SignedSq(score_threshold), m.score.den2),
                             SignedSq(m.score.num)))

\* matches.into_iter().filter(|(_, score)| *score >= score_threshold)
Filtered(matches, score_threshold) ==
  SelectSeq(matches, LAMBDA m : AtLeast(m.score, score_threshold))

\* search_hits: Ok(hits) or Err
search_hits(embedder, query, top_k, normalize_query, score_threshold, state, es) ==
  LET query_text == IF normalize_query THEN normalize(query) ELSE query
      query_vector == embed(embedder, query_text)
      matches == VectorIndex_search(es, query_vector, top_k)
  IN Resolve(<<>>, Filtered(matches, score_threshold), 1, state, es)

\* what a search_hits call leaves to observe: its top_k and threshold, the
\* matches of index.search, those that passed the threshold, and the Result
Observed(top_k, score_threshold, matches, filtered, result) ==
  [called |-> TRUE, top_k |-> top_k, threshold |-> score_threshold,
   matches |-> matches, filtered |-> filtered, ok |-> result.ok,
   error |-> result.error, hits |-> result.hits]

(***************************************************************************)
(* search_hits over a loaded snapshot.  The snapshot file is read as it is *)
(* (State::load_from), whatever wrote it: its index entries may name       *)
(* chunks and documents that it does not hold.                             *)
(***************************************************************************)
ChunkIds == {1, 2}

DocIds == {3, 4}

VectorOf(c) ==
  IF c = 1 THEN {<< <<"a">>, ROne >>}
  ELSE {<< <<"a">>, Rat(1, 2) >>, << <<"b">>, Rat(1, 2) >>}

TextOf(c) == IF c = 1 THEN <<"a">> ELSE <<"a", " ", "b">>

\* the records a snapshot may hold: at most one chunk per chunk id and one
\* document per document id, the index entries (each naming a chunk and the
\* document of that chunk) in any number and order
SnapshotChunks(C) ==
  SelectSeq(<<Chunk(1, 3, TextOf(1), 0, 1, Structured),
              Chunk(2, 4, TextOf(2), 0, 3, Structured)>>,
            LAMBDA c : c.id \in C)

SnapshotDocuments(D) ==
  SelectSeq(<<Document(3, <<"x">>, TextOf(1), 1),
              Document(4, <<"y">>, TextOf(2), 2)>>,
            LAMBDA d : d.id \in D)

Snapshots ==
  {State(SnapshotDocuments(D), SnapshotChunks(C), es) :
     D \in SUBSET DocIds, C \in SUBSET ChunkIds,
     es \in SeqsUpTo({IndexEntry(c, c + 2, VectorOf(c)) : c \in ChunkIds},
                     MaxEntries)}

Queries == { <<>>, <<"a">>, <<" ", "A", " ", "b">> }

Embedders ==
  { TfEmbedder(1), BagOfWordsEmbedder,
    CustomEmbedder({<< <<"a">>, ROne >>, << <<"b">>, Rat(-1, 1) >>}) }

Thresholds == {RZero, Rat(3, 4), ROne}

NoFound ==
  [called |-> FALSE, top_k |-> 0, threshold |-> RZero, matches |-> <<>>,
   filtered |-> <<>>, ok |-> TRUE, error |-> "", hits |-> <<>>]

HitsIdle == disk = EmptyState /\ found = NoFound

HitsInit == disk \in Snapshots /\ found = NoFound

\* search_hits on the state and index that run() loads from the snapshot
SearchHits ==
  /\ ~found.called
  /\ \E e \in Embedders, q \in Queries, k \in 0 .. MaxTopK,
        nq \in BOOLEAN, t \in Thresholds :
       LET matches == VectorIndex_search(
                        disk.index_entries,
                        embed(e, IF nq THEN normalize(q) ELSE q), k)
       IN found' = Observed(
            k, t, matches, Filtered(matches, t),
            search_hits(e, q, k, nq, t, disk, disk.index_entries))
  /\ UNCHANGED disk
  /\ UNCHANGED OutsideHits

NextHits == SearchHits

(***************************************************************************)
(* Claims on search_hits                                                   *)
(***************************************************************************)
Resolves(m) ==
  /\ find_chunk(disk, disk.index_entries[m.idx + 1].chunk_id) /= <<>>
  /\ find_document(disk, disk.index_entries[m.idx + 1].doc_id) /= <<>>

\* C5: when a match that passed the score threshold names a chunk or a
\* document that the state does not hold, search_hits returns an error and
\* no hit at all.
C5_MissFails ==
  (found.called /\ \E i \in 1 .. Len(found.filtered) : ~Resolves(found.filtered[i]))
    => (~found.ok /\ found.hits = <<>>)

\* C5 witness: a failed search_hits whose first surviving match resolves and
\* whose second one does not.
C5_Witness ==
  /\ found.called
  /\ ~found.ok
  /\ Len(found.filtered) = 2
  /\ Resolves(found.filtered[1])
  /\ ~Resolves(found.filtered[2])

\* the positions of the matches of index.search whose score is at least the
\* threshold
Surviving ==
  {i \in 1 .. Len(found.matches) :
     AtLeast(found.matches[i].score, found.threshold)}

\* the n-th surviving position, in the order of the index
NthSurviving(n) ==
  CHOOSE i \in Surviving : Cardinality({j \in Surviving : j <= i}) = n

\* C12: when every match at or above the threshold resolves, search_hits
\* returns Ok with one hit per such match and no other, in the order in
\* which the index returned them, each with the match's chunk, document and
\* score.
C12_ExactlyThresholded ==
  (found.called /\ \A i \in Surviving : Resolves(found.matches[i]))
    => /\ found.ok
       /\ Len(found.hits) = Cardinality(Surviving)
       /\ \A n \in 1 .. Len(found.hits) :
            LET m == found.matches[NthSurviving(n)]
                entry == disk.index_entries[m.idx + 1]
            IN /\ found.hits[n].score = m.score
               /\ found.hits[n].chunk.id = entry.chunk_id
               /\ found.hits[n].document.id = entry.doc_id

\* C12 witness: of two matches the one whose score equals the threshold is
\* returned and the one below it is not.
C12_Witness ==
  /\ found.called
  /\ found.ok
  /\ found.threshold = ROne
  /\ Len(found.matches) = 2
  /\ Len(found.hits) = 1
  /\ found.hits[1].score = found.matches[1].score

(***************************************************************************)
(* Deduplication and reranking of the hits (src/src/stage3.rs).  The score *)
(* of a hit and the numbers of a strategy are exact fractions.  A          *)
(* RerankedHit borrows its hit: hit is the 1-based position of the hit in  *)
(* the slice given to rerank_hits.                                         *)
(***************************************************************************)
SearchHit(text, score) == [chunk |-> [text |-> text], score |-> score]

\* the fingerprints compared as written, without to_lowercase
DedupeExactFrom(hits, i, seen) ==
  LET Kept == {k \in i .. Len(hits) :
                 \A j \in 1 .. k - 1 : hits[j].chunk.text /= hits[k].chunk.text}
  IN SelectSeq([k \in 1 .. Len(hits) |-> [at |-> k, hit |-> hits[k]]],
               LAMBDA e : e.at \in Kept)

\* the filter of dedupe_hits from the i-th hit on: seen.insert(fingerprint)
\* is true for a fingerprint not seen before; each kept hit with its position
RECURSIVE DedupeFrom(_, _, _)
DedupeFrom(hits, i, seen) ==
  IF i > Len(hits) THEN <<>>
  ELSE LET fingerprint == to_lowercase(hits[i].chunk.text)
       IN IF fingerprint \in seen
          THEN DedupeFrom(hits, i + 1, seen)
          ELSE <<[at |-> i, hit |-> hits[i]]>>
               \o DedupeFrom(hits, i + 1, seen \cup {fingerprint})

\* dedupe_hits
dedupe_hits(hits) ==
  LET kept == DedupeFrom(hits, 1, {})
  IN [k \in 1 .. Len(kept) |-> kept[k].hit]

ModeNone == "none"

TermOverlap == "term-overlap"

Hybrid == "hybrid"

Stage3RerankerStrategyConfig(mode, boost_terms, boost_factor, threshold, hybrid_weight) ==
  [mode |-> mode, boost_terms |-> boost_terms, boost_factor |-> boost_factor,
   threshold |-> threshold, hybrid_weight |-> hybrid_weight]

\* Stage3RerankerStrategyConfig::default
default_strategy ==
  Stage3RerankerStrategyConfig(ModeNone, <<>>, ROne, RZero, Rat(1, 2))

\* str::contains
contains(hay, needle) == find(hay, needle) >= 0

\* the boost terms counted as written, without to_lowercase
term_score_exact_case(text, boost_terms) ==
  Cardinality({k \in 1 .. Len(boost_terms) : contains(text, boost_terms[k])})

\* lower_boost.iter().filter(|term| text.to_lowercase().contains(term)).count()
term_score(text, boost_terms) ==
  LET lower_boost == [k \in 1 .. Len(boost_terms) |->
                        to_lowercase(boost_terms[k])]
  IN Cardinality({k \in 1 .. Len(lower_boost) :
                    contains(to_lowercase(text), lower_boost[k])})

\* let total = match strategy.mode { .. }
total(base, terms, strategy) ==
  LET boost == RMul(Rat(terms, 1), strategy.boost_factor)
  IN IF strategy.mode = ModeNone THEN base
     ELSE IF strategy.mode = TermOverlap THEN RAdd(base, boost)
     ELSE RAdd(RMul(base, RAdd(ROne, RNeg(strategy.hybrid_weight))),
               RMul(boost, strategy.hybrid_weight))

\* the for loop of rerank_hits: the hits whose total is at least the threshold
RECURSIVE ScoredHits(_, _, _)
ScoredHits(hits, strategy, i) ==
  IF i > Len(hits) THEN <<>>
  ELSE LET t == total(hits[i].score,
                      term_score(hits[i].chunk.text, strategy.boost_terms),
                      strategy)
       IN (IF ~RLess(t, strategy.threshold)
           THEN <<[hit |-> i, score |-> t]>> ELSE <<>>)
          \o ScoredHits(hits, strategy, i + 1)

\* an insertion that puts x before the elements equal to it
RECURSIVE InsertBeforeTies(_, _)
InsertBeforeTies(sorted, x) ==
  IF sorted = <<>> THEN <<x>>
  ELSE IF ~RLess(x.score, Head(sorted).score)
       THEN <<x>> \o sorted
       ELSE <<Head(sorted)>> \o InsertBeforeTies(Tail(sorted), x)

\* Insert x behind every element that does not compare Greater than it
\* (sort_by is stable, the comparator is b.score.partial_cmp(&a.score))
RECURSIVE InsertByTotal(_, _)
InsertByTotal(sorted, x) ==
  IF sorted = <<>> THEN <<x>>
  ELSE IF RLess(Head(sorted).score, x.score)
       THEN <<x>> \o sorted
       ELSE <<Head(sorted)>> \o InsertByTotal(Tail(sorted), x)

RECURSIVE SortByTotalFrom(_, _, _)
SortByTotalFrom(sorted, seq, i) ==
  IF i > Len(seq) THEN sorted
  ELSE SortByTotalFrom(InsertByTotal(sorted, seq[i]), seq, i + 1)

LeftInLoopOrder(seq) == seq

\* scored.sort_by(|a, b| b.score.partial_cmp(&a.score).unwrap_or(Equal))
SortByTotalDesc(seq) == SortByTotalFrom(<<>>, seq, 1)

\* rerank_hits
rerank_hits(hits, strategy) == SortByTotalDesc(ScoredHits(hits, strategy, 1))

(***************************************************************************)
(* run_stage3 from the hits of search_hits on: dedupe_hits once, then      *)
(* rerank_hits for each configured strategy in turn.                       *)
(***************************************************************************)
RerankTexts == { <<"a">>, <<"A">>, <<"b", " ", "a">>, <<"B">> }

RerankScores == { Rat(1, 2), ROne }

\* search_hits returns its hits in non-increasing order of score
NonIncreasing(hits) ==
  \A i \in 1 .. Len(hits) - 1 : ~RLess(hits[i].score, hits[i + 1].score)

HitLists ==
  {hits \in SeqsUpTo({SearchHit(t, sc) : t \in RerankTexts, sc \in RerankScores},
                     MaxHits) : NonIncreasing(hits)}

BoostTermLists == { <<>>, << <<"a">> >>, << <<"A">>, <<"b">> >> }

Strategies ==
  {Stage3RerankerStrategyConfig(m, terms, f, th, w) :
     m \in {ModeNone, TermOverlap, Hybrid}, terms \in BoostTermLists,
     f \in {Rat(-1, 1), Rat(1, 2)}, th \in {Rat(-2, 1), Rat(1, 2), ROne},
     w \in {Rat(1, 4), ROne}}

\* config.stage3.reranker.strategies
StrategyLists ==
  { <<>> } \cup {<<st>> : st \in Strategies}
  \cup {<<st, nd>> : st \in Strategies,
                     nd \in {default_strategy,
                             Stage3RerankerStrategyConfig(
                               TermOverlap, << <<"a">> >>, ROne, ROne,
                               Rat(1, 2))}}

\* ran is the number of strategies that have run; strategy, received and
\* reranked are those of the last rerank_hits call
Stage3(pc, hits, strategies, deduped, ran, strategy, received, reranked) ==
  [pc |-> pc, hits |-> hits, strategies |-> strategies, deduped |-> deduped,
   ran |-> ran, strategy |-> strategy, received |-> received,
   reranked |-> reranked]

Stage3Idle ==
  rr = Stage3("idle", <<>>, <<>>, <<>>, 0, default_strategy, <<>>, <<>>)

Stage3Init ==
  \E hits \in HitLists, strategies \in StrategyLists :
    rr = Stage3("hits", hits, strategies, <<>>, 0, default_strategy, <<>>,
                <<>>)

\* run_stage3: no hit, nothing to do
NoHits ==
  /\ rr.pc = "hits"
  /\ rr.hits = <<>>
  /\ rr' = [rr EXCEPT !.pc = "returned"]
  /\ UNCHANGED OutsideStage3

\* run_stage3: let deduped = dedupe_hits(hits)
DedupeHits ==
  /\ rr.pc = "hits"
  /\ rr.hits /= <<>>
  /\ rr' = [rr EXCEPT !.pc = "deduped", !.deduped = dedupe_hits(rr.hits)]
  /\ UNCHANGED OutsideStage3

\* run_stage3: one turn of `for strategy in &config.stage3.reranker.strategies`
RerankHits ==
  /\ rr.pc = "deduped"
  /\ rr.ran < Len(rr.strategies)
  /\ LET strategy == rr.strategies[rr.ran + 1]
     IN rr' = [rr EXCEPT !.ran = rr.ran + 1,
                         !.strategy = strategy,
                         !.received = rr.deduped,
                         !.reranked = rerank_hits(rr.deduped, strategy)]
  /\ UNCHANGED OutsideStage3

NextStage3 == NoHits \/ DedupeHits \/ RerankHits

(***************************************************************************)
(* Claims on deduplication and reranking                                   *)
(***************************************************************************)
EqualIgnoringCase(x, y) ==
  /\ Len(x) = Len(y)
  /\ \A k \in 1 .. Len(x) : to_lowercase_char(x[k]) = to_lowercase_char(y[k])

\* the positions of the hits that are the first of their group
FirstOfGroup ==
  {i \in 1 .. Len(rr.hits) :
     \A j \in 1 .. i - 1 :
       ~EqualIgnoringCase(rr.hits[j].chunk.text, rr.hits[i].chunk.text)}

NthFirstOfGroup(n) ==
  CHOOSE i \in FirstOfGroup : Cardinality({j \in FirstOfGroup : j <= i}) = n

\* C13: the deduplicated list is the list of the hits that are the first of
\* their group of texts equal ignoring case, in input order, and every
\* strategy of the run receives that list.
C13_FirstOfEachGroup ==
  rr.pc = "deduped"
    => /\ Len(rr.deduped) = Cardinality(FirstOfGroup)
       /\ \A n \in 1 .. Len(rr.deduped) :
            rr.deduped[n] = rr.hits[NthFirstOfGroup(n)]
       /\ rr.ran > 0 => rr.received = rr.deduped

\* C13 witness: two strategies have run on a list from which a hit that
\* differs from an earlier one by case only was dropped.
C13_Witness ==
  /\ rr.pc = "deduped"
  /\ rr.ran = 2
  /\ Len(rr.hits) = 2
  /\ Len(rr.deduped) = 1
  /\ rr.hits[1].chunk.text /= rr.hits[2].chunk.text

\* term occurs in text at the 0-based offset o, case ignored
OccursAt(text, term, o) ==
  /\ o + Len(term) <= Len(text)
  /\ \A j \in 1 .. Len(term) :
       to_lowercase_char(text[o + j]) = to_lowercase_char(term[j])

\* the number of the strategy's boost terms that occur in the text
TermsOccurring(text, strategy) ==
  Cardinality({k \in 1 .. Len(strategy.boost_terms) :
                 \E o \in 0 .. Len(text) :
                   OccursAt(text, strategy.boost_terms[k], o)})

\* the combined score that the mode of the strategy prescribes for a hit
Prescribed(hit, strategy) ==
  LET base == hit.score
      boosted == RMul(Rat(TermsOccurring(hit.chunk.text, strategy), 1),
                      strategy.boost_factor)
  IN CASE strategy.mode = ModeNone -> base
       [] strategy.mode = TermOverlap -> RAdd(base, boosted)
       [] strategy.mode = Hybrid ->
            RAdd(RMul(base, RAdd(ROne, RNeg(strategy.hybrid_weight))),
                 RMul(boosted, strategy.hybrid_weight))

Reranked == rr.pc = "deduped" /\ rr.ran > 0

\* C14: every reranked hit carries the combined score that the mode of the
\* strategy prescribes: base, base + term_score * boost_factor, or
\* base * (1 - hybrid_weight) + term_score * boost_factor * hybrid_weight.
C14_CombinedScore ==
  Reranked
    => \A n \in 1 .. Len(rr.reranked) :
         rr.reranked[n].score =
           Prescribed(rr.received[rr.reranked[n].hit], rr.strategy)

\* C14 witness: a Hybrid strategy has scored a hit in which two boost terms
\* occur, one of them written in another case than in the text.
C14_Witness ==
  /\ Reranked
  /\ rr.strategy.mode = Hybrid
  /\ \E n \in 1 .. Len(rr.reranked) :
       /\ TermsOccurring(rr.received[rr.reranked[n].hit].chunk.text,
                         rr.strategy) = 2
       /\ rr.reranked[n].score /= rr.received[rr.reranked[n].hit].score

\* the positions of the received hits whose prescribed score is at least the
\* threshold of the strategy
AtOrAboveThreshold ==
  {i \in 1 .. Len(rr.received) :
     ~RLess(Prescribed(rr.received[i], rr.strategy), rr.strategy.threshold)}

\* C15: the reranked list holds exactly the hits whose combined score is at
\* least the threshold, each once, in non-increasing order of combined score.
C15_ThresholdedAndSorted ==
  Reranked
    => /\ {rr.reranked[n].hit : n \in 1 .. Len(rr.reranked)}
            = AtOrAboveThreshold
       /\ Len(rr.reranked) = Cardinality(AtOrAboveThreshold)
       /\ \A n \in 1 .. Len(rr.reranked) - 1 :
            ~RLess(rr.reranked[n].score, rr.reranked[n + 1].score)

\* C15 witness: the second hit was ranked before the first, which was kept
\* with a combined score equal to the threshold.
C15_Witness ==
  /\ Reranked
  /\ Len(rr.reranked) = 2
  /\ rr.reranked[1].hit = 2
  /\ rr.reranked[2].score = rr.strategy.threshold
  /\ RLess(rr.reranked[2].score, rr.reranked[1].score)

\* the hits of list whose score is at least the threshold, in their order
AtOrAboveBase(list) ==
  SelectSeq(list, LAMBDA h : ~RLess(h.score, rr.strategy.threshold))

\* the hits that the reranked entries refer to, in ranked order
RerankedList ==
  [n \in 1 .. Len(rr.reranked) |-> rr.received[rr.reranked[n].hit]]

\* C16: with mode None the reranked list is the list of the deduplicated
\* hits whose base score is at least the threshold, in their original order
\* and with their base scores.
C16_NonePreservesOrder ==
  (Reranked /\ rr.strategy.mode = ModeNone)
    => /\ RerankedList = AtOrAboveBase(rr.deduped)
       /\ \A n \in 1 .. Len(rr.reranked) :
            rr.reranked[n].score = RerankedList[n].score

\* C16 as stated: with mode None the reranked list is the list of the hits
\* of search_hits whose base score is at least the threshold.
C16_NoneReturnsSearchHits ==
  (Reranked /\ rr.strategy.mode = ModeNone)
    => RerankedList = AtOrAboveBase(rr.hits)

\* C16 witness: mode None with boost terms that occur has kept two hits of
\* equal score in their order and dropped none.
C16_Witness ==
  /\ Reranked
  /\ rr.strategy.mode = ModeNone
  /\ rr.strategy.boost_terms /= <<>>
  /\ Len(rr.deduped) = 2
  /\ rr.deduped[1].score = rr.deduped[2].score
  /\ Len(rr.reranked) = 2
  /\ rr.reranked[1].hit = 1
  /\ TermsOccurring(rr.deduped[2].chunk.text, rr.strategy) > 0

(***************************************************************************)
(* evaluate_query (src/src/evaluation.rs).  recall and mrr are exact       *)
(* fractions.  The gains 1 / log2(rank + 1) are irrational: ndcg is kept   *)
(* as the set of ranks whose gains are summed for `actual` and the set of  *)
(* ranks whose gains are summed for `ideal`, or as zero.                   *)
(***************************************************************************)
EvaluationQuery(expected_terms) == [expected_terms |-> expected_terms]

\* the loop body over a hit whose text is compared as written
EvalHitExactCase(st, hit, normalized_terms) ==
  LET news == {idx \in 1 .. Len(normalized_terms) :
                 /\ idx \notin st.satisfied
                 /\ contains(hit.chunk.text, normalized_terms[idx])}
      relevant == news /= {}
  IN [satisfied |-> st.satisfied \cup news,
      relevance_flags |-> Append(st.relevance_flags, relevant),
      first_relevant_rank |->
        IF relevant /\ st.first_relevant_rank = 0
        THEN Len(st.relevance_flags) + 1
        ELSE st.first_relevant_rank]

\* the loop body recording the rank of every relevant hit, so that the last
\* one remains
EvalHitLastRank(st, hit, normalized_terms) ==
  LET chunk_text == to_lowercase(hit.chunk.text)
      news == {idx \in 1 .. Len(normalized_terms) :
                 /\ idx \notin st.satisfied
                 /\ contains(chunk_text, normalized_terms[idx])}
      relevant == news /= {}
  IN [satisfied |-> st.satisfied \cup news,
      relevance_flags |-> Append(st.relevance_flags, relevant),
      first_relevant_rank |->
        IF relevant THEN Len(st.relevance_flags) + 1
        ELSE st.first_relevant_rank]

\* the body of `for (rank, hit) in hits.iter().enumerate()`; satisfied is
\* the set of the indices idx with satisfied[idx], first_relevant_rank is 0
\* for None
EvalHit(st, hit, normalized_terms) ==
  LET chunk_text == to_lowercase(hit.chunk.text)
      news == {idx \in 1 .. Len(normalized_terms) :
                 /\ idx \notin st.satisfied
                 /\ contains(chunk_text, normalized_terms[idx])}
      relevant == news /= {}
  IN [satisfied |-> st.satisfied \cup news,
      relevance_flags |-> Append(st.relevance_flags, relevant),
      first_relevant_rank |->
        IF relevant /\ st.first_relevant_rank = 0
        THEN Len(st.relevance_flags) + 1
        ELSE st.first_relevant_rank]

RECURSIVE EvalFrom(_, _, _, _)
EvalFrom(st, hits, normalized_terms, i) ==
  IF i > Len(hits) THEN st
  ELSE EvalFrom(EvalHit(st, hits[i], normalized_terms), hits,
                normalized_terms, i + 1)

\* compute_ndcg with the ideal gain summed over the ranks of all hits
compute_ndcg_ideal_over_hits(flags, relevant) ==
  IF relevant = 0
  THEN [zero |-> TRUE, actual |-> {}, ideal |-> {}]
  ELSE [zero |-> FALSE,
        actual |-> {rank \in 1 .. Len(flags) : flags[rank]},
        ideal |-> 1 .. Len(flags)]

\* compute_ndcg
compute_ndcg(flags, relevant) ==
  IF relevant = 0
  THEN [zero |-> TRUE, actual |-> {}, ideal |-> {}]
  ELSE [zero |-> FALSE,
        actual |-> {rank \in 1 .. Len(flags) : flags[rank]},
        ideal |-> 1 .. relevant]

QueryReport(top_k, recall, mrr, ndcg, hits, expected) ==
  [top_k |-> top_k, recall |-> recall, mrr |-> mrr, ndcg |-> ndcg,
   hits |-> hits, expected |-> expected]

\* evaluate_query
evaluate_query(query, hits, top_k) ==
  LET normalized_terms == [k \in 1 .. Len(query.expected_terms) |->
                             to_lowercase(query.expected_terms[k])]
      expected_count == Len(normalized_terms)
      st == EvalFrom([satisfied |-> {}, relevance_flags |-> <<>>,
                      first_relevant_rank |-> 0],
                     hits, normalized_terms, 1)
      matched == Cardinality(st.satisfied)
  IN QueryReport(
       top_k,
       IF expected_count = 0 THEN RZero ELSE Rat(matched, expected_count),
       IF st.first_relevant_rank = 0 THEN RZero
       ELSE Rat(1, st.first_relevant_rank),
       compute_ndcg(st.relevance_flags, matched),
       Len(hits), expected_count)

\* query.expected_terms of the configured evaluation queries
ExpectedTermLists ==
  { <<>>, << <<"a">> >>, << <<"A">> >>, << <<"b">> >>, << <<"z">> >>,
    << <<"a">>, <<"b">> >>, << <<"z">>, <<"B">> >>, << <<"a">>, <<"a">> >>,
    << <<"b", " ">>, <<"a">>, <<"z">> >> }

Evaluated(called, query, hits, report) ==
  [called |-> called, query |-> query, hits |-> hits, report |-> report]

EvaluateIdle ==
  ev = Evaluated(FALSE, EvaluationQuery(<<>>), <<>>,
                 evaluate_query(EvaluationQuery(<<>>), <<>>, 0))

\* run_evaluation: evaluate_query on the hits that search_hits returned
EvaluateQuery ==
  /\ ~ev.called
  /\ \E terms \in ExpectedTermLists, hits \in HitLists, top_k \in 0 .. MaxTopK :
       /\ Len(hits) <= top_k
       /\ ev' = Evaluated(TRUE, EvaluationQuery(terms), hits,
                          evaluate_query(EvaluationQuery(terms), hits, top_k))
  /\ UNCHANGED OutsideEvaluate

NextEvaluate == EvaluateQuery

(***************************************************************************)
(* Claims on evaluate_query                                                *)
(***************************************************************************)
\* the positions of the expected terms that occur, case ignored, in the
\* chunk text of at least one hit
TermsFound ==
  {k \in 1 .. Len(ev.query.expected_terms) :
     \E i \in 1 .. Len(ev.hits) :
       \E o \in 0 .. Len(ev.hits[i].chunk.text) :
         OccursAt(ev.hits[i].chunk.text, ev.query.expected_terms[k], o)}

\* C20: recall is the number of expected terms found in at least one hit
\* over the number of expected terms, and 0 without expected terms.
C20_Recall ==
  ev.called
    => ev.report.recall =
         IF Len(ev.query.expected_terms) = 0 THEN RZero
         ELSE Rat(Cardinality(TermsFound), Len(ev.query.expected_terms))

\* C20 witness: of two expected terms one is found, in both of two hits and
\* in another case than written, and the recall is 1/2.
C20_Witness ==
  /\ ev.called
  /\ Len(ev.query.expected_terms) = 2
  /\ Len(ev.hits) = 2
  /\ ev.report.recall = Rat(1, 2)
  /\ \E k \in TermsFound :
       /\ \A i \in 1 .. 2 :
            \E o \in 0 .. Len(ev.hits[i].chunk.text) :
              OccursAt(ev.hits[i].chunk.text, ev.query.expected_terms[k], o)
       /\ ~contains(ev.hits[1].chunk.text, ev.query.expected_terms[k])

\* the expected term at position k occurs, case ignored, in the chunk text
\* of the hit at rank i
FoundIn(k, i) ==
  \E o \in 0 .. Len(ev.hits[i].chunk.text) :
    OccursAt(ev.hits[i].chunk.text, ev.query.expected_terms[k], o)

\* the ranks of the hits whose chunk text contains an expected term
RelevantRanks ==
  {i \in 1 .. Len(ev.hits) :
     \E k \in 1 .. Len(ev.query.expected_terms) : FoundIn(k, i)}

\* C21: MRR is 1 / r with r the 1-indexed rank of the first hit whose chunk
\* text contains an expected term, and 0 when no hit contains one.
C21_Mrr ==
  ev.called
    => ev.report.mrr =
         IF RelevantRanks = {} THEN RZero
         ELSE Rat(1, CHOOSE r \in RelevantRanks :
                       \A i \in RelevantRanks : r <= i)

\* C21 witness: the first hit contains one expected term, the second hit
\* another one, and the MRR is that of rank 1.
C21_Witness ==
  /\ ev.called
  /\ RelevantRanks = {1, 2}
  /\ \E k \in 1 .. Len(ev.query.expected_terms) :
       FoundIn(k, 2) /\ ~FoundIn(k, 1)
  /\ ev.report.mrr = ROne

\* the ranks of the hits flagged relevant: the hits containing an expected
\* term that no hit of a lower rank contains
FlaggedRanks ==
  {i \in 1 .. Len(ev.hits) :
     \E k \in 1 .. Len(ev.query.expected_terms) :
       FoundIn(k, i) /\ \A j \in 1 .. i - 1 : ~FoundIn(k, j)}

\* C22: nDCG is 0 when no expected term is satisfied; otherwise it is
\* actual / ideal with actual the sum of the gains 1 / log2(r + 1) over the
\* ranks r of the hits flagged relevant and ideal the sum of the same gains
\* over the ranks 1 .. N, N the number of expected terms satisfied; a query
\* with one expected term found in the rank-1 hit has recall = MRR = nDCG = 1
\* (actual and ideal sum the same gains).
C22_Ndcg ==
  ev.called
    => /\ ev.report.ndcg.zero <=> TermsFound = {}
       /\ ~ev.report.ndcg.zero
            => /\ ev.report.ndcg.actual = FlaggedRanks
               /\ ev.report.ndcg.ideal = 1 .. Cardinality(TermsFound)
       /\ (Len(ev.query.expected_terms) = 1 /\ 1 \in RelevantRanks)
            => /\ ev.report.recall = ROne
               /\ ev.report.mrr = ROne
               /\ ~ev.report.ndcg.zero
               /\ ev.report.ndcg.actual = ev.report.ndcg.ideal

\* C22 witness: one expected term occurs in both of two hits; only the first
\* hit is flagged and recall, MRR and nDCG are 1.
C22_Witness ==
  /\ ev.called
  /\ Len(ev.query.expected_terms) = 1
  /\ RelevantRanks = {1, 2}
  /\ ev.report.recall = ROne
  /\ ev.report.mrr = ROne
  /\ ev.report.ndcg = [zero |-> FALSE, actual |-> {1}, ideal |-> {1}]

(***************************************************************************)
(* The Ingest command (src/src/pipeline.rs).  A command is a process: run() *)
(* loads the snapshot, ingest() works on the State and the index in memory, *)
(* and run() writes the snapshot back.  The snapshot file is shared by the  *)
(* commands, everything else is private to one command.  A Uuid::new_v4()   *)
(* is a value never drawn before: the next number of the counter uuids.     *)
(***************************************************************************)
Procs == {"p1", "p2"}

\* hash_text: the SHA-256 digest, one digest per text
hash_text(text) == [sha256 |-> text]

File(path, readable, content) ==
  [path |-> path, readable |-> readable, content |-> content]

FileX == File(<<"x">>, TRUE, <<"a">>)

FileY == File(<<"y">>, TRUE, <<"a", "\n", "\n", "b">>)

\* a file of whitespace: no chunk comes out of it
FileZ == File(<<"z">>, TRUE, <<" ">>)

\* a file that read_to_string cannot read
FileW == File(<<"w">>, FALSE, <<>>)

\* what collect_sources may return for the path of a command: the files of
\* the directory in the order WalkDir yields them
SourceLists ==
  { <<>>, <<FileX>>, <<FileY>>, <<FileZ>>, <<FileW>>,
    <<FileX, FileY>>, <<FileY, FileX>>, <<FileX, FileX>>,
    <<FileX, FileW>>, <<FileW, FileX>>, <<FileZ, FileY>> }

\* the part of Config that ingest() reads, and the --strategy of the command
IngestConfig(chunker, skip_duplicates, embedder) ==
  [chunker |-> chunker, skip_duplicates |-> skip_duplicates,
   embedder |-> embedder]

IngestConfigs ==
  { IngestConfig(c, sk, TfEmbedder(1)) :
      c \in { with_config(Structured, default_max_tokens, default_overlap,
                          TRUE, TRUE, default_chunk_separators),
              with_config(Fixed, 1, 0, TRUE, FALSE, default_chunk_separators),
              with_config(Fixed, 0, 0, TRUE, TRUE, default_chunk_separators) },
      sk \in BOOLEAN }

\* what a command holds: ok is FALSE once ingest() has returned Err or
\* panicked
Memory(ok, state, index, drawn) ==
  [ok |-> ok, state |-> state, index |-> index, uuids |-> drawn]

\* the document put before the documents that the State holds
PushDocumentFirst(mem, document, chunks, embedder) ==
  [mem EXCEPT
     !.index = mem.index \o
               [i \in 1 .. Len(chunks) |->
                  IndexEntry(chunks[i].id, document.id,
                             embed(embedder, chunks[i].text))],
     !.state = State(<<document>> \o mem.state.documents,
                     mem.state.chunks \o chunks,
                     mem.state.index_entries),
     !.uuids = document.id + Len(chunks)]

\* `for chunk in chunks`: embed, index.add_chunk, state.chunks.push; then
\* state.documents.push(document)
PushDocument(mem, document, chunks, embedder) ==
  [mem EXCEPT
     !.index = mem.index \o
               [i \in 1 .. Len(chunks) |->
                  IndexEntry(chunks[i].id, document.id,
                             embed(embedder, chunks[i].text))],
     !.state = State(Append(mem.state.documents, document),
                     mem.state.chunks \o chunks,
                     mem.state.index_entries),
     !.uuids = document.id + Len(chunks)]

\* one iteration of `for file in source_files`
IngestFile(file, cfg, mem) ==
  IF ~file.readable THEN [mem EXCEPT !.ok = FALSE]
  ELSE
    LET normalized == normalize(file.content)
        hash == hash_text(normalized)
    IN IF has_document(mem.state, hash) /\ cfg.skip_duplicates THEN mem
       ELSE
         LET doc_id == mem.uuids + 1
             document == Document(doc_id, file.path, hash,
                                  token_count(cfg.embedder, normalized))
             run == chunk(cfg.chunker, doc_id, normalized, doc_id)
         IN IF run.pc = "panic"
            THEN [mem EXCEPT !.ok = FALSE,
                             !.uuids = doc_id + Len(run.results)]
            ELSE IF run.results = <<>>
            THEN [mem EXCEPT !.uuids = doc_id]
            ELSE PushDocument(mem, document, run.results, cfg.embedder)

\* ingest(): the loop over the source files, left at the first Err
RECURSIVE ingest(_, _, _, _)
ingest(files, i, cfg, mem) ==
  IF i > Len(files) \/ ~mem.ok THEN mem
  ELSE ingest(files, i + 1, cfg, IngestFile(files[i], cfg, mem))

\* state.index_entries = index.entries().to_vec() writes the stale entries
SavedStateStaleIndex(state, index) == state

\* state.index_entries = index.entries().to_vec(): the State that save_to
\* serializes
SavedState(state, index) == [state EXCEPT !.index_entries = index]

\* base is the State that load_from returned to the command
Exited ==
  [pc |-> "exited", state |-> EmptyState, index |-> <<>>, base |-> EmptyState]

PipelineIdle == procs = [p \in Procs |-> Exited] /\ uuids = 0

PipelineInit == disk = EmptyState /\ found = NoFound /\ PipelineIdle

\* run(): State::load_from and VectorIndex::from_entries.  The file holds the
\* fields of the State that save_to serialized, and State::default (no
\* documents, chunks or entries) is what load_from returns without a file.
Load(p) ==
  /\ procs[p].pc = "exited"
  /\ procs' = [procs EXCEPT ![p] =
                 [pc |-> "loaded", state |-> disk,
                  index |-> disk.index_entries, base |-> disk]]
  /\ UNCHANGED <<disk, uuids>>
  /\ UNCHANGED OutsidePipeline

\* run(): the call of ingest(); an Err or a panic ends the command
Ingest(p) ==
  /\ procs[p].pc = "loaded"
  /\ \E files \in SourceLists, cfg \in IngestConfigs :
       \E mem \in {ingest(files, 1, cfg,
                           Memory(TRUE, procs[p].state, procs[p].index,
                                  uuids))} :
          /\ mem.uuids <= MaxUuid
          /\ uuids' = mem.uuids
          /\ procs' = [procs EXCEPT ![p] =
                         IF mem.ok
                         THEN [pc |-> "ingested", state |-> mem.state,
                               index |-> mem.index, base |-> procs[p].base]
                         ELSE Exited]
  /\ UNCHANGED disk
  /\ UNCHANGED OutsidePipeline

\* a save that adds what the command ingested to the snapshot as it is now
SaveMerging(p) ==
  /\ procs[p].pc = "ingested"
  /\ disk' = State(disk.documents
                     \o SubSeq(procs[p].state.documents,
                               Len(procs[p].base.documents) + 1,
                               Len(procs[p].state.documents)),
                   disk.chunks
                     \o SubSeq(procs[p].state.chunks,
                               Len(procs[p].base.chunks) + 1,
                               Len(procs[p].state.chunks)),
                   disk.index_entries
                     \o SubSeq(procs[p].index,
                               Len(procs[p].base.index_entries) + 1,
                               Len(procs[p].index)))
  /\ procs' = [procs EXCEPT ![p] = Exited]
  /\ UNCHANGED uuids
  /\ UNCHANGED OutsidePipeline

\* run(): index_entries taken from the index, emit_chunks_jsonl, save_to
Save(p) ==
  /\ procs[p].pc = "ingested"
  /\ disk' = SavedState(procs[p].state, procs[p].index)
  /\ procs' = [procs EXCEPT ![p] = Exited]
  /\ UNCHANGED uuids
  /\ UNCHANGED OutsidePipeline

\* run(): emit_chunks_jsonl or save_to returns Err before the file is written
SaveFails(p) ==
  /\ procs[p].pc = "ingested"
  /\ procs' = [procs EXCEPT ![p] = Exited]
  /\ UNCHANGED <<disk, uuids>>
  /\ UNCHANGED OutsidePipeline

NextPipeline ==
  \E p \in Procs : Load(p) \/ Ingest(p) \/ Save(p) \/ SaveFails(p)

(***************************************************************************)
(* Claims on the saved state                                               *)
(***************************************************************************)
ChunksWithId(state, id) ==
  {j \in 1 .. Len(state.chunks) : state.chunks[j].id = id}

DocumentsWithId(state, id) ==
  {j \in 1 .. Len(state.documents) : state.documents[j].id = id}

EntriesOfChunk(state, id) ==
  {i \in 1 .. Len(state.index_entries) : state.index_entries[i].chunk_id = id}

\* C4: in the saved state every index entry names exactly one chunk and
\* exactly one document, and every chunk is named by exactly one index entry.
C4_SavedStateConsistent ==
  /\ \A i \in 1 .. Len(disk.index_entries) :
       /\ Cardinality(ChunksWithId(disk, disk.index_entries[i].chunk_id)) = 1
       /\ Cardinality(DocumentsWithId(disk, disk.index_entries[i].doc_id)) = 1
  /\ \A j \in 1 .. Len(disk.chunks) :
       Cardinality(EntriesOfChunk(disk, disk.chunks[j].id)) = 1

\* C4 witness: a snapshot saved by a second Ingest command on top of a first
\* one: two documents, one of them with two chunks.
C4_Witness ==
  /\ Len(disk.documents) = 2
  /\ Len(disk.chunks) = 3
  /\ Len(disk.index_entries) = 3
  /\ disk.documents[1].hash /= disk.documents[2].hash
  /\ \A p \in Procs : procs[p].pc = "exited"

\* the records of the snapshot that were saved after command q had loaded
\* its State: what another command added in the meantime
AddedSinceLoad(q) ==
  [documents |-> {disk.documents[i] : i \in 1 .. Len(disk.documents)}
                   \ {procs[q].base.documents[i] :
                        i \in 1 .. Len(procs[q].base.documents)},
   chunks |-> {disk.chunks[i] : i \in 1 .. Len(disk.chunks)}
                \ {procs[q].base.chunks[i] :
                     i \in 1 .. Len(procs[q].base.chunks)},
   index_entries |->
     {disk.index_entries[i] : i \in 1 .. Len(disk.index_entries)}
       \ {procs[q].base.index_entries[i] :
            i \in 1 .. Len(procs[q].base.index_entries)}]

\* C30: an Ingest that has finished ingesting can always save, whatever
\* another command has saved since it loaded (no locking, versioning or
\* conflict detection); its save rewrites the whole snapshot with the State it
\* loaded plus its own additions, so that nothing another command added in
\* the meantime remains.
C30_LastSaveWins ==
  [][\A q \in Procs :
       procs[q].pc = "ingested"
         => /\ ENABLED Save(q)
            /\ (procs'[q].pc = "exited" /\ disk' /= disk)
                 => /\ disk' = SavedState(procs[q].state, procs[q].index)
                    /\ SubSeq(disk'.documents, 1,
                              Len(procs[q].base.documents))
                         = procs[q].base.documents
                    /\ \A i \in 1 .. Len(disk'.documents) :
                         disk'.documents[i] \notin AddedSinceLoad(q).documents
                    /\ \A i \in 1 .. Len(disk'.chunks) :
                         disk'.chunks[i] \notin AddedSinceLoad(q).chunks
                    /\ \A i \in 1 .. Len(disk'.index_entries) :
                         disk'.index_entries[i]
                           \notin AddedSinceLoad(q).index_entries]_vars

\* C30 witness: two Ingest commands loaded the same snapshot and each
\* ingested a document; one has saved and exited, the other is about to save
\* a State that lacks the document of the first.
C30_Witness ==
  \E p, q \in Procs :
    /\ procs[p].pc = "exited"
    /\ procs[q].pc = "ingested"
    /\ procs[q].base = EmptyState
    /\ Len(procs[q].state.documents) = 1
    /\ Len(disk.documents) = 1
    /\ AddedSinceLoad(q).documents = {disk.documents[1]}
    /\ disk.documents[1].hash /= procs[q].state.documents[1].hash

(***************************************************************************)
(* Commands run one at a time: each run() of src/src/pipeline.rs goes from *)
(* load_from to its end before the next command starts, so that a whole    *)
(* run is one step on the snapshot file.  `last` keeps the command of the  *)
(* last run, its arguments and its Result; again tells that the run before *)
(* it was an Ingest with the same arguments that returned Ok.              *)
(***************************************************************************)
LastCommand(command, files, cfg, ok, again) ==
  [command |-> command, files |-> files, cfg |-> cfg, ok |-> ok,
   again |-> again]

\* the configuration of a command that does not ingest
DefaultIngestConfig ==
  IngestConfig(with_config(Structured, default_max_tokens, default_overlap,
                           TRUE, TRUE, default_chunk_separators),
               TRUE, TfEmbedder(1))

\* the configurations of the Ingest commands: those whose chunker has
\* max_tokens >= 1
CommandConfigs == {cfg \in IngestConfigs : cfg.chunker.max_tokens >= 1}

CommandsIdle ==
  last = LastCommand("none", <<>>, DefaultIngestConfig, TRUE, FALSE)

\* run() with Command::Ingest: load_from, ingest, index_entries taken from
\* the index, emit_chunks_jsonl and save_to; written is FALSE when one of the
\* last two returns Err before the snapshot file is written
RunIngest ==
  \E files \in SourceLists, cfg \in CommandConfigs :
    \E mem \in {ingest(files, 1, cfg,
                        Memory(TRUE, disk, disk.index_entries, uuids))} :
      \E written \in BOOLEAN :
        /\ mem.uuids <= MaxUuid
        /\ uuids' = mem.uuids
        /\ disk' = IF mem.ok /\ written
                   THEN SavedState(mem.state, mem.index) ELSE disk
        /\ last' = LastCommand("Ingest", files, cfg, mem.ok /\ written,
                               /\ last.command = "Ingest"
                               /\ last.ok
                               /\ last.files = files
                               /\ last.cfg = cfg)
        /\ UNCHANGED OutsideCommands

\* run() with Command::Search: load_from, then search() over &state and
\* &index, which starts with search_hits
RunSearch ==
  \E query \in Queries, top_k \in 0 .. MaxTopK :
    /\ last' = LastCommand("Search", <<>>, DefaultIngestConfig,
                           search_hits(TfEmbedder(1), query, top_k, TRUE,
                                       RZero, disk, disk.index_entries).ok,
                           FALSE)
    /\ UNCHANGED <<disk, uuids>>
    /\ UNCHANGED OutsideCommands

\* run() with Command::Rag: load_from, then run_stage3 over &state and
\* &index, which starts with search_hits
RunRag ==
  \E query \in Queries, top_k \in 0 .. MaxTopK :
    /\ last' = LastCommand("Rag", <<>>, DefaultIngestConfig,
                           search_hits(TfEmbedder(1), query, top_k, TRUE,
                                       RZero, disk, disk.index_entries).ok,
                           FALSE)
    /\ UNCHANGED <<disk, uuids>>
    /\ UNCHANGED OutsideCommands

\* run() with Command::Evaluate: load_from, then run_evaluation over &state
\* and &index; its Result depends on the runs directory as well
RunEvaluate ==
  \E ok \in BOOLEAN :
    /\ last' = LastCommand("Evaluate", <<>>, DefaultIngestConfig, ok, FALSE)
    /\ UNCHANGED <<disk, uuids>>
    /\ UNCHANGED OutsideCommands

\* run() with Command::Status: load_from, then status(&state)
RunStatus ==
  /\ last' = LastCommand("Status", <<>>, DefaultIngestConfig, TRUE, FALSE)
  /\ UNCHANGED <<disk, uuids>>
  /\ UNCHANGED OutsideCommands

NextCommands == RunIngest \/ RunSearch \/ RunRag \/ RunEvaluate \/ RunStatus

(***************************************************************************)
(* Claims on commands run one at a time                                    *)
(***************************************************************************)
IsPrefix(s, t) == Len(s) <= Len(t) /\ SubSeq(t, 1, Len(s)) = s

\* C25: a command run on its own only appends to the persisted documents,
\* chunks and index entries: every record stays unchanged and in place;
\* Search, Rag, Evaluate and Status leave the snapshot as it is, and so does
\* an Ingest that returns an error.
C25_AppendOnly ==
  [][/\ IsPrefix(disk.documents, disk'.documents)
     /\ IsPrefix(disk.chunks, disk'.chunks)
     /\ IsPrefix(disk.index_entries, disk'.index_entries)
     /\ last'.command /= "Ingest" => disk' = disk
     /\ ~last'.ok => disk' = disk]_vars

\* C25 witness: an Ingest of one file has added a second document, with two
\* chunks, behind the document and chunk that an earlier command had saved.
C25_Witness ==
  /\ last.command = "Ingest"
  /\ last.ok
  /\ last.files = <<FileY>>
  /\ Len(disk.documents) = 2
  /\ disk.documents[1].path = FileX.path
  /\ Len(disk.chunks) = 3
  /\ Len(disk.index_entries) = 3

\* the hashes of the documents of a State
Hashes(state) == {state.documents[i].hash : i \in 1 .. Len(state.documents)}

NoSharedHash(state) == Cardinality(Hashes(state)) = Len(state.documents)

\* C26: an Ingest with skip_duplicates adds no document whose hash is
\* recorded already, and with it no chunk or index entry: the documents it
\* adds carry hashes that were not recorded and every chunk and index entry
\* it adds belongs to one of them; documents that did not share a hash do
\* not share one afterwards; and an Ingest run again with the same arguments
\* leaves the snapshot as the first run left it.
C26_SkipDuplicates ==
  [][(last'.command = "Ingest" /\ last'.cfg.skip_duplicates)
       => /\ \A i \in Len(disk.documents) + 1 .. Len(disk'.documents) :
               disk'.documents[i].hash \notin Hashes(disk)
          /\ \A j \in Len(disk.chunks) + 1 .. Len(disk'.chunks) :
               \E i \in Len(disk.documents) + 1 .. Len(disk'.documents) :
                 disk'.chunks[j].doc_id = disk'.documents[i].id
          /\ \A j \in Len(disk.index_entries) + 1
                        .. Len(disk'.index_entries) :
               \E i \in Len(disk.documents) + 1 .. Len(disk'.documents) :
                 disk'.index_entries[j].doc_id = disk'.documents[i].id
          /\ NoSharedHash(disk) => NoSharedHash(disk')
          /\ last'.again => disk' = disk]_vars

\* C26 witness: an Ingest of two files of different content with
\* skip_duplicates was run a second time and returned Ok; the snapshot holds
\* the two documents of the first run.
C26_Witness ==
  /\ last.command = "Ingest"
  /\ last.again
  /\ last.ok
  /\ last.cfg.skip_duplicates
  /\ Len(last.files) = 2
  /\ Len(disk.documents) = 2
  /\ NoSharedHash(disk)

(***************************************************************************)
(* format_prompt (src/src/stage3.rs): two str::replace passes over the     *)
(* template, the second over the result of the first.                      *)
(***************************************************************************)
QueryPlaceholder == <<"{", "q", "u", "e", "r", "y", "}">>

ContextPlaceholder == <<"{", "c", "o", "n", "t", "e", "x", "t", "}">>

\* str::replace(from, to) with a non-empty pattern: the matches are taken
\* from left to right and do not overlap
RECURSIVE replace(_, _, _)
replace(s, from, to) ==
  IF Len(s) < Len(from) THEN s
  ELSE IF SubSeq(s, 1, Len(from)) = from
  THEN to \o replace(SubSeq(s, Len(from) + 1, Len(s)), from, to)
  ELSE <<Head(s)>> \o replace(Tail(s), from, to)

\* format_prompt
format_prompt(template, query, context) ==
  replace(replace(template, QueryPlaceholder, query),
          ContextPlaceholder, context)

\* config.stage3.prompt_template
Templates ==
  { <<"a">>,
    QueryPlaceholder \o <<"\n">> \o ContextPlaceholder,
    ContextPlaceholder \o <<" ">> \o QueryPlaceholder,
    QueryPlaceholder \o QueryPlaceholder \o ContextPlaceholder,
    <<"{", "q">> \o QueryPlaceholder \o <<"}">>,
    <<"{", "c", "o", "n">> \o QueryPlaceholder \o ContextPlaceholder }

\* the query of the Rag command
PromptQueries ==
  { <<>>, <<"a">>, <<"a", " ", "b">>, ContextPlaceholder,
    <<"a">> \o ContextPlaceholder, QueryPlaceholder,
    <<"t", "e", "x", "t", "}">> }

\* what build_context returned
PromptContexts ==
  { <<>>, <<"b">>, QueryPlaceholder,
    <<"b", "\n", "-", "-", "-", "\n", "a">> }

Prompted(called, template, query, context, prompt) ==
  [called |-> called, template |-> template, query |-> query,
   context |-> context, prompt |-> prompt]

PromptIdle == pr = Prompted(FALSE, <<>>, <<>>, <<>>, <<>>)

\* run_stage3: format_prompt(&config.stage3.prompt_template, query, &context)
FormatPrompt ==
  /\ \E template \in Templates, query \in PromptQueries,
        context \in PromptContexts :
       pr' = Prompted(TRUE, template, query, context,
                      format_prompt(template, query, context))
  /\ UNCHANGED OutsidePrompt

NextPrompt == FormatPrompt

(***************************************************************************)
(* Claims on format_prompt                                                 *)
(***************************************************************************)
\* the template with every occurrence of the query placeholder replaced by
\* the query and every occurrence of the context placeholder replaced by the
\* context, both as they are
RECURSIVE Substituted(_, _, _)
Substituted(template, query, context) ==
  IF template = <<>> THEN <<>>
  ELSE IF starts_with(template, QueryPlaceholder)
  THEN query \o Substituted(SubSeq(template, Len(QueryPlaceholder) + 1,
                                   Len(template)), query, context)
  ELSE IF starts_with(template, ContextPlaceholder)
  THEN context \o Substituted(SubSeq(template, Len(ContextPlaceholder) + 1,
                                     Len(template)), query, context)
  ELSE <<Head(template)>> \o Substituted(Tail(template), query, context)

\* C29: format_prompt returns the template with every occurrence of the
\* query placeholder replaced by the query verbatim and every occurrence of
\* the context placeholder replaced by the context verbatim, also for a query
\* that contains the text of the context placeholder.
C29_VerbatimSubstitution ==
  pr.called => pr.prompt = Substituted(pr.template, pr.query, pr.context)

(***************************************************************************)
(* main (src/src/main.rs) and the parsing of the configuration file        *)
(* (src/src/config.rs).  Of the file only the embedder kind of stage 1 and *)
(* the mode of a stage 3 rerank strategy are kept; an Option is a sequence *)
(* of length 0 (None) or 1 (Some).                                         *)
(***************************************************************************)
\* str::splitn(n, pat) with n >= 1 and a pattern of one character
RECURSIVE splitn(_, _, _)
splitn(n, s, pat) ==
  LET at == find(s, <<pat>>)
  IN IF n <= 1 \/ at < 0 THEN <<s>>
     ELSE <<SubSeq(s, 1, at)>> \o splitn(n - 1, SubSeq(s, at + 2, Len(s)), pat)

EmbedderKind(kind, name, version) ==
  [kind |-> kind, name |-> name, version |-> version]

KindTf == EmbedderKind("Tf", <<>>, <<>>)

KindBagOfWords == EmbedderKind("BagOfWords", <<>>, <<>>)

Parsed(value) == [ok |-> TRUE, value |-> value]

ParseError(msg) == [ok |-> FALSE, error |-> msg]

\* EmbedderKindVisitor::visit_str
visit_str(value) ==
  LET normalized == to_lowercase(trim(value))
  IN IF normalized = <<"t", "f">> THEN Parsed(KindTf)
     ELSE IF normalized
               = <<"b", "a", "g", "-", "o", "f", "-", "w", "o", "r", "d", "s">>
     THEN Parsed(KindBagOfWords)
     ELSE IF starts_with(normalized, <<"c", "u", "s", "t", "o", "m", ":">>)
     THEN LET parts == splitn(3, normalized, ":")
              name == IF Len(parts) >= 2 THEN parts[2] ELSE <<>>
              version == IF Len(parts) >= 3 /\ parts[3] /= <<>>
                         THEN <<parts[3]>> ELSE <<>>
          IN IF name = <<>> THEN ParseError("custom embedder needs a name")
             ELSE Parsed(EmbedderKind("Custom", name, version))
     ELSE ParseError("unknown embedder kind")

\* the derived Deserialize of Stage3RerankMode, names in kebab-case
Stage3RerankMode_deserialize(value) ==
  IF value = <<"n", "o", "n", "e">> THEN Parsed(ModeNone)
  ELSE IF value
            = <<"t", "e", "r", "m", "-", "o", "v", "e", "r", "l", "a", "p">>
  THEN Parsed(TermOverlap)
  ELSE IF value = <<"h", "y", "b", "r", "i", "d">> THEN Parsed(Hybrid)
  ELSE ParseError("unknown variant")

\* Config: stage1.embedder.kind and the mode of a stage3 rerank strategy
Config(kind, mode) == [kind |-> kind, mode |-> mode]

\* Config::default
Config_default == Config(KindTf, ModeNone)

\* the configuration file: whether it exists, and the two keys if written
ConfigFile(exists, kind, mode) ==
  [exists |-> exists, kind |-> kind, mode |-> mode]

\* toml::from_str::<Config>: a key that is not written takes its default
from_str(contents) ==
  LET kind == IF contents.kind = <<>> THEN Parsed(KindTf)
              ELSE visit_str(contents.kind[1])
      mode == IF contents.mode = <<>> THEN Parsed(ModeNone)
              ELSE Stage3RerankMode_deserialize(contents.mode[1])
  IN IF ~kind.ok THEN ParseError("parse config")
     ELSE IF ~mode.ok THEN ParseError("parse config")
     ELSE Parsed(Config(kind.value, mode.value))

\* Config::load
Config_load(file) ==
  IF file.exists THEN from_str(file) ELSE Parsed(Config_default)

\* Result::unwrap_or_default
unwrap_or_default(result) ==
  IF result.ok THEN result.value ELSE Config_default

\* the values written for `kind` in the configuration file
KindStrings ==
  { <<"t", "f">>, <<" ", "t", "f", "\n">>,
    <<"B", "a", "g", "-", "o", "f", "-", "w", "o", "r", "d", "s">>,
    <<"b", "o", "w">>, <<>>,
    <<"c", "u", "s", "t", "o", "m">>,
    <<"c", "u", "s", "t", "o", "m", ":">>,
    <<"c", "u", "s", "t", "o", "m", ":", ":", "b">>,
    <<"c", "u", "s", "t", "o", "m", ":", "a">>,
    <<"c", "u", "s", "t", "o", "m", ":", "a", ":">>,
    <<"c", "u", "s", "t", "o", "m", ":", "A", ":", "b", ":", "a">> }

\* the values written for `mode` in the configuration file
ModeStrings ==
  { <<"n", "o", "n", "e">>, <<"N", "o", "n", "e">>,
    <<"t", "e", "r", "m", "-", "o", "v", "e", "r", "l", "a", "p">>,
    <<"t", "e", "r", "m", "_", "o", "v", "e", "r", "l", "a", "p">>,
    <<"h", "y", "b", "r", "i", "d">>, <<>> }

ConfigFiles ==
  {ConfigFile(FALSE, <<>>, <<>>)}
    \cup {ConfigFile(TRUE, kind, mode) :
            kind \in {<<>>} \cup {<<k>> : k \in KindStrings},
            mode \in {<<>>} \cup {<<m>> : m \in ModeStrings}}

\* args.rs: Command
Commands == {"Ingest", "Search", "Status", "Evaluate", "Train", "Rag"}

Main(pc, file, config, command) ==
  [pc |-> pc, file |-> file, config |-> config, command |-> command]

MainIdle ==
  mn = Main("idle", ConfigFile(FALSE, <<>>, <<>>), Config_default, "")

MainInit ==
  \E file \in ConfigFiles : mn = Main("main", file, Config_default, "")

\* let config = Config::load("oxbed-config.toml").unwrap_or_default();
LoadConfig ==
  /\ mn.pc = "main"
  /\ mn' = [mn EXCEPT !.pc = "configured",
                      !.config = unwrap_or_default(Config_load(mn.file))]
  /\ UNCHANGED OutsideMain

\* let cli = Cli::parse();
CliParse ==
  /\ mn.pc = "configured"
  /\ \E command \in Commands :
       mn' = [mn EXCEPT !.pc = "parsed", !.command = command]
  /\ UNCHANGED OutsideMain

\* pipeline::run(cli.command, config): the work of the command starts
PipelineRun ==
  /\ mn.pc = "parsed"
  /\ mn' = [mn EXCEPT !.pc = "running"]
  /\ UNCHANGED OutsideMain

NextMain == LoadConfig \/ CliParse \/ PipelineRun

(***************************************************************************)
(* Claims on main                                                          *)
(***************************************************************************)
\* the text of a key as the configuration file has it, trimmed and lowercased
Lowered(text) == to_lowercase(trim(text))

\* the kind written is none of tf, bag-of-words and custom:<name>...
UnknownKind(file) ==
  /\ file.exists /\ file.kind /= <<>>
  /\ Lowered(file.kind[1]) \notin
       { <<"t", "f">>,
         <<"b", "a", "g", "-", "o", "f", "-", "w", "o", "r", "d", "s">> }
  /\ ~starts_with(Lowered(file.kind[1]), <<"c", "u", "s", "t", "o", "m", ":">>)

\* the kind written is custom: followed by no name
EmptyCustomName(file) ==
  /\ file.exists /\ file.kind /= <<>>
  /\ \/ Lowered(file.kind[1]) = <<"c", "u", "s", "t", "o", "m", ":">>
     \/ starts_with(Lowered(file.kind[1]),
                    <<"c", "u", "s", "t", "o", "m", ":", ":">>)

\* the mode written is none of none, term-overlap and hybrid
MalformedRerankMode(file) ==
  /\ file.exists /\ file.mode /= <<>>
  /\ file.mode[1] \notin
       { <<"n", "o", "n", "e">>, <<"h", "y", "b", "r", "i", "d">>,
         <<"t", "e", "r", "m", "-", "o", "v", "e", "r", "l", "a", "p">> }

ConfigurationError(file) ==
  UnknownKind(file) \/ EmptyCustomName(file) \/ MalformedRerankMode(file)

\* C23: with an unknown embedder kind, an empty custom-embedder name or a
\* malformed rerank mode in the configuration file, the work of the command
\* never starts.
C23_ConfigErrorAborts ==
  ConfigurationError(mn.file) => mn.pc /= "running"

(***************************************************************************)
(* The specifications: one per component, the other components idle.       *)
(***************************************************************************)
InitIndexSpec ==
  IndexInit /\ ChunkIdle /\ ContextIdle /\ HitsIdle /\ PipelineIdle
  /\ NormalizeIdle /\ Stage3Idle /\ EmbedIdle /\ EvaluateIdle /\ MainIdle
  /\ CommandsIdle /\ PromptIdle

SpecIndex == InitIndexSpec /\ [][NextIndex]_vars

InitChunkSpec ==
  ChunkInit /\ IndexInit /\ ContextIdle /\ HitsIdle /\ PipelineIdle
  /\ NormalizeIdle /\ Stage3Idle /\ EmbedIdle /\ EvaluateIdle /\ MainIdle
  /\ CommandsIdle /\ PromptIdle

SpecChunk == InitChunkSpec /\ [][NextChunk]_vars

InitContextSpec ==
  ContextIdle /\ IndexInit /\ ChunkIdle /\ HitsIdle /\ PipelineIdle
  /\ NormalizeIdle /\ Stage3Idle /\ EmbedIdle /\ EvaluateIdle /\ MainIdle
  /\ CommandsIdle /\ PromptIdle

SpecContext == InitContextSpec /\ [][NextContext]_vars

InitHitsSpec ==
  HitsInit /\ IndexInit /\ ChunkIdle /\ ContextIdle /\ PipelineIdle
  /\ NormalizeIdle /\ Stage3Idle /\ EmbedIdle /\ EvaluateIdle /\ MainIdle
  /\ CommandsIdle /\ PromptIdle

SpecHits == InitHitsSpec /\ [][NextHits]_vars

InitPipelineSpec ==
  PipelineInit /\ IndexInit /\ ChunkIdle /\ ContextIdle /\ NormalizeIdle
  /\ Stage3Idle /\ EmbedIdle /\ EvaluateIdle /\ MainIdle /\ CommandsIdle
  /\ PromptIdle

SpecPipeline == InitPipelineSpec /\ [][NextPipeline]_vars

InitNormalizeSpec ==
  NormalizeInit /\ IndexInit /\ ChunkIdle /\ ContextIdle /\ HitsIdle
  /\ PipelineIdle /\ Stage3Idle /\ EmbedIdle /\ EvaluateIdle /\ MainIdle
  /\ CommandsIdle /\ PromptIdle

SpecNormalize == InitNormalizeSpec /\ [][NextNormalize]_vars

InitStage3Spec ==
  Stage3Init /\ IndexInit /\ ChunkIdle /\ ContextIdle /\ HitsIdle
  /\ PipelineIdle /\ NormalizeIdle /\ EmbedIdle /\ EvaluateIdle /\ MainIdle
  /\ CommandsIdle /\ PromptIdle

SpecStage3 == InitStage3Spec /\ [][NextStage3]_vars

InitEmbedSpec ==
  EmbedInit /\ IndexInit /\ ChunkIdle /\ ContextIdle /\ HitsIdle
  /\ PipelineIdle /\ NormalizeIdle /\ Stage3Idle /\ EvaluateIdle /\ MainIdle
  /\ CommandsIdle /\ PromptIdle

SpecEmbed == InitEmbedSpec /\ [][NextEmbed]_vars

InitEvaluateSpec ==
  EvaluateIdle /\ IndexInit /\ ChunkIdle /\ ContextIdle /\ HitsIdle
  /\ PipelineIdle /\ NormalizeIdle /\ Stage3Idle /\ EmbedIdle /\ MainIdle
  /\ CommandsIdle /\ PromptIdle

SpecEvaluate == InitEvaluateSpec /\ [][NextEvaluate]_vars

InitMainSpec ==
  MainInit /\ IndexInit /\ ChunkIdle /\ ContextIdle /\ HitsIdle
  /\ PipelineIdle /\ NormalizeIdle /\ Stage3Idle /\ EmbedIdle /\ EvaluateIdle
  /\ CommandsIdle /\ PromptIdle

SpecMain == InitMainSpec /\ [][NextMain]_vars

InitCommandsSpec ==
  CommandsIdle /\ IndexInit /\ ChunkIdle /\ ContextIdle /\ HitsIdle
  /\ PipelineIdle /\ NormalizeIdle /\ Stage3Idle /\ EmbedIdle /\ EvaluateIdle
  /\ MainIdle /\ PromptIdle

SpecCommands == InitCommandsSpec /\ [][NextCommands]_vars

InitPromptSpec ==
  PromptIdle /\ IndexInit /\ ChunkIdle /\ ContextIdle /\ HitsIdle
  /\ PipelineIdle /\ NormalizeIdle /\ Stage3Idle /\ EmbedIdle /\ EvaluateIdle
  /\ MainIdle /\ CommandsIdle

SpecPrompt == InitPromptSpec /\ [][NextPrompt]_vars

====
